---- MODULE Spec2Model ----
(***************************************************************************)
(* Model of ios-native/Scripts/benchmark.py: the probe runner, the tier    *)
(* classifier, the nearest-rank percentile, the recommendation rules, the  *)
(* summary builder, the suite run that strings them together, and the      *)
(* exit code main derives from it.                                         *)
(*                                                                         *)
(* Python floats are modelled as exact rationals [n |-> num, d |-> den]    *)
(* in lowest terms with d > 0, so that equality of values is equality of   *)
(* records.  Optional[T] is modelled as a sequence of length at most one:  *)
(* None is << >> and a present value v is << v >>.                         *)
(***************************************************************************)
EXTENDS Integers, Sequences, FiniteSets, TLC

VARIABLES
    pc,              \* position of the program
    psutil,          \* environment: "ok", "missing" (ImportError) or "broken"
    budget,          \* non-nominal events the environment may still produce
    lastReading,     \* the previous value returned by _get_memory_usage
    cat,             \* index of the category whose _run_*_benchmarks runs
    idx,             \* index of the probe within the category's list
    catResults,      \* the local `results` list of _run_*_benchmarks
    initial_memory,  \* _run_single_benchmark: initial_memory
    durations,       \* _run_single_benchmark: durations
    calls,           \* invocations of benchmark_func for the current probe
    ret,             \* Optional: the Sample _run_single_benchmark returned
    results,         \* run_benchmark_suite: results
    total_duration,  \* run_benchmark_suite: total_duration
    summary,         \* Optional: the dict _generate_summary returned
    csv,             \* rows written by _save_results
    outcome,         \* how run_benchmark_suite ended: "", "returned", "raised"
    exit_code,       \* Optional: the value main returned
    data,            \* _percentile: data
    percentile,      \* _percentile: percentile
    pret,            \* Optional: the value _percentile returned
    sample,          \* _categorize_performance: result (the argument)
    clocals,         \* Optional: its duration_, memory_ and cpu_category
    cret,            \* Optional: the category _categorize_performance returned
    file,            \* convert-assets-to-iphone: the Contents.json at file_path
    writes,          \* times the converter has rewritten that file
    creturns,        \* values convert_contents_json_to_iphone returned, in order
    assets_dir,      \* whether App/Assets.xcassets exists
    catalog,         \* asset name -> its imageset in App/Assets.xcassets
    stage,           \* validate_pet_assets: position in REQUIRED_PET_ASSETS
    all_valid,       \* validate_pet_assets: all_valid
    missing_assets,  \* validate_pet_assets: missing_assets
    incomplete_assets, \* validate_pet_assets: incomplete_assets
    vresult,         \* how validate_pet_assets ended: "", "True", "False", "raised"
    vexit,           \* Optional: the exit status of validate-pet-assets.py
    tree,            \* static checker: path -> whether it exists, checks found in it
    tnext,           \* static checker: the next test category of run_all_tests
    test_results,    \* static checker: self.results
    pass_rate,       \* Optional: what print_summary returned
    verdict,         \* the final verdict print_summary printed
    icon_source,     \* Tools/build_assets.py: the state of ArtSources/appicon/appicon.png
    appicon,         \* App/Resources/Assets.xcassets/AppIcon.appiconset
    icons_written,   \* process_app_icon: icons_written
    iret,            \* Optional: what process_app_icon returned
    catalog_info,    \* App/Assets.xcassets/Contents.json
    pil,             \* Scripts/build_assets.py: whether PIL can be imported
    bstage,          \* create_asset_catalog: position in STAGES
    text_files,      \* the files written as text placeholders
    total_converted  \* Optional: total_converted of the converter's main

vars == << pc, psutil, budget, lastReading, cat, idx, catResults,
           initial_memory, durations, calls, ret, results, total_duration,
           summary, csv, outcome, exit_code, data, percentile, pret, sample,
           clocals, cret, file, writes, creturns, assets_dir, catalog, stage,
           all_valid, missing_assets, incomplete_assets, vresult, vexit,
           tree, tnext, test_results, pass_rate, verdict,
           icon_source, appicon, icons_written, iret,
           catalog_info, pil, bstage, text_files, total_converted >>

suiteVars == << psutil, budget, lastReading, cat, idx, catResults,
                initial_memory, durations, calls, ret, results,
                total_duration, summary, csv, outcome, exit_code >>

fnVars == << data, percentile, pret, sample, clocals, cret >>

convertVars == << file, writes, creturns >>

catalogVars == << assets_dir, catalog, catalog_info >>

validateVars == << stage, all_valid, missing_assets, incomplete_assets,
                  vresult, vexit >>

\* The state of the asset scripts and of the static checker.
testVars == << tree, tnext, test_results, pass_rate, verdict >>

iconVars == << icon_source, appicon, icons_written, iret >>

buildVars == << pil, bstage, text_files, total_converted >>

toolVars == << convertVars, catalogVars, validateVars, testVars, iconVars,
              buildVars >>

(***************************************************************************)
(* Floats as exact rationals.                                              *)
(***************************************************************************)
RECURSIVE GCD(_, _)
GCD(a, b) == IF b = 0 THEN a ELSE GCD(b, a % b)

Abs(x) == IF x < 0 THEN -x ELSE x

\* The rational a / b (b > 0) in lowest terms.
Q(a, b) ==
    LET g == GCD(Abs(a), b)
    IN  [n |-> a \div g, d |-> b \div g]

R(a) == Q(a, 1)

RLeq(x, y) == x.n * y.d <= y.n * x.d
RLess(x, y) == x.n * y.d < y.n * x.d
RAdd(x, y) == Q(x.n * y.d + y.n * x.d, x.d * y.d)
RSub(x, y) == Q(x.n * y.d - y.n * x.d, x.d * y.d)
RDivInt(x, k) == Q(x.n, x.d * k)
RMulInt(x, k) == Q(x.n * k, x.d)
RMax(x, y) == IF RLess(x, y) THEN y ELSE x
RMin(x, y) == IF RLess(y, x) THEN y ELSE x

RECURSIVE RSum(_)
RSum(s) == IF s = << >> THEN R(0) ELSE RAdd(Head(s), RSum(Tail(s)))

RECURSIVE RMaxSeq(_)
RMaxSeq(s) ==
    IF Len(s) = 1 THEN s[1] ELSE RMax(s[1], RMaxSeq(Tail(s)))

RECURSIVE RMinSeq(_)
RMinSeq(s) ==
    IF Len(s) = 1 THEN s[1] ELSE RMin(s[1], RMinSeq(Tail(s)))

\* statistics.mean: the exact mean of a non-empty list.
Mean(s) == RDivInt(RSum(s), Len(s))

\* sorted(): ascending, by insertion.
RECURSIVE Insert(_, _)
Insert(x, s) ==
    IF s = << >> THEN << x >>
    ELSE IF RLess(x, Head(s)) THEN << x >> \o s
    ELSE << Head(s) >> \o Insert(x, Tail(s))

RECURSIVE Sorted(_)
Sorted(s) == IF s = << >> THEN << >> ELSE Insert(Head(s), Sorted(Tail(s)))

Min2(a, b) == IF a < b THEN a ELSE b
Max2(a, b) == IF a > b THEN a ELSE b

None == << >>
Some(v) == << v >>

(***************************************************************************)
(* BenchmarkResult and the classifier.                                     *)
(***************************************************************************)
BenchmarkResult(name, duration_ms, memory_mb, cpu_percent, success, error, metadata) ==
    [name |-> name, duration_ms |-> duration_ms, memory_mb |-> memory_mb,
     cpu_percent |-> cpu_percent, success |-> success, error |-> error,
     metadata |-> metadata]

Thresholds ==
    [duration_ms |-> [excellent |-> 100, good |-> 500, acceptable |-> 1000, poor |-> 5000],
     memory_mb   |-> [excellent |-> 10,  good |-> 25,  acceptable |-> 50,   poor |-> 100],
     cpu_percent |-> [excellent |-> 20,  good |-> 50,  acceptable |-> 80,   poor |-> 100]]

Categories == << "excellent", "good", "acceptable", "poor" >>

\* list.index
IndexOf(s, x) == CHOOSE i \in 1..Len(s) : s[i] = x /\ \A j \in 1..(i - 1) : s[j] # x

\* _get_category with exclusive upper bounds.
GetCategoryStrict(table, value, metric) ==
    LET thresholds == table[metric]
    IN  IF RLess(value, R(thresholds.excellent)) THEN "excellent"
        ELSE IF RLess(value, R(thresholds.good)) THEN "good"
        ELSE IF RLess(value, R(thresholds.acceptable)) THEN "acceptable"
        ELSE "poor"

\* _get_category falling back to the first category for a value above
\* every cutoff.
GetCategoryDefaultFirst(table, value, metric) ==
    LET thresholds == table[metric]
    IN  IF RLeq(value, R(thresholds.excellent)) THEN "excellent"
        ELSE IF RLeq(value, R(thresholds.good)) THEN "good"
        ELSE IF RLeq(value, R(thresholds.acceptable)) THEN "acceptable"
        ELSE IF RLeq(value, R(thresholds.poor)) THEN "poor"
        ELSE "excellent"

\* _get_category against a given threshold table.
GetCategoryIn(table, value, metric) ==
    LET thresholds == table[metric]
    IN  IF RLeq(value, R(thresholds.excellent)) THEN "excellent"
        ELSE IF RLeq(value, R(thresholds.good)) THEN "good"
        ELSE IF RLeq(value, R(thresholds.acceptable)) THEN "acceptable"
        ELSE "poor"

GetCategory(value, metric) == GetCategoryIn(Thresholds, value, metric)

Max3(a, b, c) == Max2(a, Max2(b, c))

\* Lines 436-438: the three locals of _categorize_performance.
MetricCategories(result) ==
    [duration_category |-> GetCategory(result.duration_ms, "duration_ms"),
     memory_category |-> GetCategory(result.memory_mb, "memory_mb"),
     cpu_category |-> GetCategory(result.cpu_percent, "cpu_percent")]

\* Lines 441-447 with the metrics' categories merged by their average.
AverageCategory(cs) ==
    Categories[(IndexOf(Categories, cs.duration_category)
                + IndexOf(Categories, cs.memory_category)
                + IndexOf(Categories, cs.cpu_category)) \div 3]

\* Lines 441-447.
WorstCategory(cs) ==
    LET worst_index == Max3(IndexOf(Categories, cs.duration_category),
                            IndexOf(Categories, cs.memory_category),
                            IndexOf(Categories, cs.cpu_category))
    IN  Categories[worst_index]

CategorizePerformance(result) == WorstCategory(MetricCategories(result))

(***************************************************************************)
(* Statistics.                                                             *)
(***************************************************************************)
\* _percentile with the rank counted from one.
PercentileRankFromOne(d, p) ==
    IF d = << >> THEN R(0)
    ELSE LET sorted_data == Sorted(d)
             index == (Len(sorted_data) * p) \div 100
         IN  sorted_data[Max2(Min2(index, Len(sorted_data)), 1)]

\* _percentile.  int(len * p / 100) truncates a non-negative quotient; the
\* 0-based index k of Python is position k + 1 here.
Percentile(d, p) ==
    IF d = << >> THEN R(0)
    ELSE LET sorted_data == Sorted(d)
             index == (Len(sorted_data) * p) \div 100
         IN  sorted_data[Min2(index, Len(sorted_data) - 1) + 1]

(***************************************************************************)
(* Recommendations.  A message is modelled by the rule that wrote it, the  *)
(* count it names and the names it lists.                                  *)
(***************************************************************************)
\* The last k elements of s, where the slice [:k] takes the first.
Suffix(s, k) == SubSeq(s, Max2(1, Len(s) - k + 1), Len(s))

\* slow_operations[:3] for k = 3
Prefix(s, k) == SubSeq(s, 1, Min2(k, Len(s)))

\* The comparison of line 483 with >= for >.
IsHighMemoryInclusive(r) == RLeq(R(25), r.memory_mb)

IsSlow(r) == RLess(R(100), r.duration_ms)
IsHighMemory(r) == RLess(R(25), r.memory_mb)
IsHighCpu(r) == RLess(R(50), r.cpu_percent)
\* [r.name for r in rs]
Names(rs) == [i \in 1..Len(rs) |-> rs[i].name]

Message(rule, count, names) == [rule |-> rule, count |-> count, names |-> names]

\* Lines 470-500 with the affirmation appended whether or not a rule fired.
RecommendationsAlwaysAffirm(rs) ==
    LET slow_operations == SelectSeq(rs, IsSlow)
        high_memory_ops == SelectSeq(rs, IsHighMemory)
        high_cpu_ops == SelectSeq(rs, IsHighCpu)
    IN  (IF slow_operations # << >>
         THEN << Message("slow", Len(slow_operations),
                         Names(Prefix(slow_operations, 3))) >>
         ELSE << >>)
        \o (IF high_memory_ops # << >>
            THEN << Message("memory", Len(high_memory_ops), << >>) >>
            ELSE << >>)
        \o (IF high_cpu_ops # << >>
            THEN << Message("cpu", Len(high_cpu_ops), << >>) >>
            ELSE << >>)
        \o << Message("excellent", 0, << >>) >>

GenerateRecommendations(rs) ==
    LET slow_operations == SelectSeq(rs, IsSlow)
        high_memory_ops == SelectSeq(rs, IsHighMemory)
        high_cpu_ops == SelectSeq(rs, IsHighCpu)
        r1 == IF slow_operations # << >>
              THEN << Message("slow", Len(slow_operations),
                              Names(Prefix(slow_operations, 3))) >>
              ELSE << >>
        r2 == IF high_memory_ops # << >>
              THEN r1 \o << Message("memory", Len(high_memory_ops), << >>) >>
              ELSE r1
        r3 == IF high_cpu_ops # << >>
              THEN r2 \o << Message("cpu", Len(high_cpu_ops), << >>) >>
              ELSE r2
    IN  IF r3 = << >> THEN << Message("excellent", 0, << >>) >> ELSE r3

(***************************************************************************)
(* The summary builder.                                                    *)
(***************************************************************************)
IsSuccess(r) == r.success
IsFailure(r) == ~r.success
\* [r.duration_ms for r in rs] and its two siblings
DurationsOf(rs) == [i \in 1..Len(rs) |-> rs[i].duration_ms]
MemoryOf(rs) == [i \in 1..Len(rs) |-> rs[i].memory_mb]
CpuOf(rs) == [i \in 1..Len(rs) |-> rs[i].cpu_percent]

\* Line 379.
SuccessfulResults(rs) == SelectSeq(rs, IsSuccess)

\* Line 380 applied to the successful results.
FailedAmongSuccessful(rs) == SelectSeq(SuccessfulResults(rs), IsFailure)

\* Line 380.
FailedResults(rs) == SelectSeq(rs, IsFailure)

\* Line 379 without its filter.
EveryResult(rs) == rs

\* Line 391 and its two siblings: the Samples the aggregates are taken over.
MeasuredResults(rs) == SuccessfulResults(rs)

\* The tally of lines 396-399 by the duration's category alone.
CountDurationCategories(successful_results) ==
    [c \in {Categories[i] : i \in 1..Len(Categories)} |->
        Cardinality({i \in 1..Len(successful_results) :
            GetCategory(successful_results[i].duration_ms, "duration_ms") = c})]

\* The tally of lines 396-399.
CountCategories(successful_results) ==
    [c \in {Categories[i] : i \in 1..Len(Categories)} |->
        Cardinality({i \in 1..Len(successful_results) :
                        CategorizePerformance(successful_results[i]) = c})]

\* The rate over the Samples that succeeded.
SuccessRateOfSuccessful(successful, total) == RMulInt(Q(successful, successful), 100)

\* The rate as a fraction of one.
SuccessRateAsFraction(successful, total) == Q(successful, total)

\* len(successful_results) / len(results) * 100
SuccessRate(successful, total) == RMulInt(Q(successful, total), 100)

GenerateSummary(rs, total) ==
    LET successful_results == SuccessfulResults(rs)
        failed_results == FailedResults(rs)
        durs == DurationsOf(MeasuredResults(rs))
        memory_usage == MemoryOf(MeasuredResults(rs))
        cpu_usage == CpuOf(MeasuredResults(rs))
    IN  IF successful_results = << >>
        THEN [total_tests |-> Len(rs),
              successful |-> 0,
              failed |-> Len(failed_results),
              success_rate |-> R(0),
              total_duration_ms |-> total]
        ELSE [total_tests |-> Len(rs),
              successful |-> Len(successful_results),
              failed |-> Len(failed_results),
              success_rate |-> SuccessRate(Len(successful_results), Len(rs)),
              total_duration_ms |-> total,
              performance_stats |->
                  [avg_duration_ms |-> Mean(durs),
                   min_duration_ms |-> RMinSeq(durs),
                   max_duration_ms |-> RMaxSeq(durs),
                   p95_duration_ms |-> Percentile(durs, 95),
                   p99_duration_ms |-> Percentile(durs, 99)],
              memory_stats |->
                  [avg_memory_mb |-> Mean(memory_usage),
                   max_memory_mb |-> RMaxSeq(memory_usage),
                   total_memory_mb |-> RSum(memory_usage)],
              cpu_stats |->
                  [avg_cpu_percent |-> Mean(cpu_usage),
                   max_cpu_percent |-> RMaxSeq(cpu_usage)],
              performance_categories |-> CountCategories(successful_results),
              recommendations |-> GenerateRecommendations(successful_results)]

(***************************************************************************)
(* The configured probes: name and the time its work unit sleeps, in       *)
(* microseconds, by category in the order run_benchmark_suite runs them.   *)
(***************************************************************************)
Probe(name, sleep_us) == [name |-> name, sleep_us |-> sleep_us]

CoreBenchmarks ==
    << Probe("SharedStore_Initialization", 1000),
       Probe("SharedStore_TaskAddition", 2000),
       Probe("SharedStore_TaskRetrieval", 1000),
       Probe("SharedStore_ConcurrentAccess", 5000),
       Probe("TimeSlot_Operations", 500),
       Probe("PetEvolution_PointAddition", 3000),
       Probe("PetEvolution_StateCalculation", 2000) >>

MemoryBenchmarks ==
    << Probe("Memory_TaskCreation", 1000),
       Probe("Memory_WidgetCreation", 2000),
       Probe("Memory_AssetLoading", 1000),
       Probe("Memory_LeakDetection", 3000) >>

UiBenchmarks ==
    << Probe("UI_ViewCreation", 2000),
       Probe("UI_AnimationPerformance", 16000),
       Probe("UI_ScrollingPerformance", 8000),
       Probe("UI_ResponsivenessTest", 1000) >>

NetworkBenchmarks ==
    << Probe("Network_CDNResponse", 50000),
       Probe("Network_AssetDownload", 100000),
       Probe("Network_FailoverHandling", 200000),
       Probe("Network_CacheEfficiency", 1000) >>

AiBenchmarks ==
    << Probe("AI_TaskPlanGeneration", 50000),
       Probe("AI_RecommendationEngine", 30000),
       Probe("AI_SentimentAnalysis", 10000),
       Probe("AI_BehaviorAnalysis", 40000) >>

\* The calls of lines 85-97 with the memory category run first.
BenchmarksMemoryFirst ==
    << MemoryBenchmarks, CoreBenchmarks, UiBenchmarks, NetworkBenchmarks,
       AiBenchmarks >>

\* The order of the calls of lines 85-97.
Benchmarks ==
    << CoreBenchmarks, MemoryBenchmarks, UiBenchmarks, NetworkBenchmarks,
       AiBenchmarks >>

\* range(5) of _run_single_benchmark
Iterations == 5

(***************************************************************************)
(* The environment of a run.  A work unit sleeps its configured time, or   *)
(* (a non-nominal event, counted against budget) takes one of              *)
(* SlowDurations, or raises one of Exceptions.  Every exception here       *)
(* derives from Exception, which is what the handler of line 259 catches.  *)
(* An exception is modelled by its args.                                   *)
(***************************************************************************)
MaxEvents == 1

SlowDurations == { R(4996) }

Exceptions == { << >>, << "timeout" >> }

\* str(e) for an exception with no argument or with one string argument.
ExcStr(args) == IF Len(args) = 0 THEN "" ELSE args[1]

\* What psutil reports (bytes) and what time.time() reads (seconds).
RssValues == { 30 * 1048576, 90 * 1048576 }
ClockValues == { 9, 12 }

\* _get_memory_usage, given whether psutil imports, the RSS and the clock.
GetMemoryUsage(imports, rss, now) ==
    IF imports THEN Q(rss, 1024 * 1024) ELSE RAdd(R(25), R(now % 10))

Readings(mode) ==
    IF mode = "ok" THEN { GetMemoryUsage(TRUE, rss, 0) : rss \in RssValues }
    ELSE { GetMemoryUsage(FALSE, 0, now) : now \in ClockValues }

\* The reading of a process that has just started.
FirstReading(mode) ==
    CHOOSE v \in Readings(mode) : \A w \in Readings(mode) : RLeq(v, w)

CurrentProbe == Benchmarks[cat][idx]

\* The Sample of lines 260-267 with what had been measured before the raise.
FailedResultKeepsMetrics(name, exc) ==
    BenchmarkResult(name, IF durations = << >> THEN R(0) ELSE Mean(durations),
                    R(0), R(0), FALSE, Some(ExcStr(exc)),
                    IF durations = << >> THEN None
                    ELSE Some([iterations |-> Len(durations)]))

\* The Sample of lines 260-267.
FailedResult(name, exc) ==
    BenchmarkResult(name, R(0), R(0), R(0), FALSE, Some(ExcStr(exc)), None)

\* The Sample of lines 237-257 with final_memory - initial_memory as it is.
SuccessResultSignedDelta(name, durs, initial, final) ==
    BenchmarkResult(name, Mean(durs), RSub(final, initial),
                    RMin(R(100), RDivInt(Mean(durs), 10)), TRUE, None,
                    Some([iterations |-> Len(durs),
                          min_duration_ms |-> RMinSeq(durs),
                          max_duration_ms |-> RMaxSeq(durs)]))

\* The Sample of lines 237-257 with avg_duration / 10 left unclamped.
SuccessResultUnclamped(name, durs, initial, final) ==
    BenchmarkResult(name, Mean(durs), RMax(R(0), RSub(final, initial)),
                    RDivInt(Mean(durs), 10), TRUE, None,
                    Some([iterations |-> Len(durs),
                          min_duration_ms |-> RMinSeq(durs),
                          max_duration_ms |-> RMaxSeq(durs)]))

\* The Sample of lines 237-257 with cpu_percent = min(100, avg_duration * 10).
SuccessResultCpuTimesTen(name, durs, initial, final) ==
    BenchmarkResult(name, Mean(durs), RMax(R(0), RSub(final, initial)),
                    RMin(R(100), RMulInt(Mean(durs), 10)), TRUE, None,
                    Some([iterations |-> Len(durs),
                          min_duration_ms |-> RMinSeq(durs),
                          max_duration_ms |-> RMaxSeq(durs)]))

\* The Sample of lines 237-257.  The metadata's std_dev_ms, a square root,
\* has no exact rational value and is left out.
SuccessResult(name, durs, initial, final) ==
    LET memory_delta == RMax(R(0), RSub(final, initial))
        avg_duration == Mean(durs)
        cpu_percent == RMin(R(100), RDivInt(avg_duration, 10))
    IN  BenchmarkResult(name, avg_duration, memory_delta, cpu_percent, TRUE, None,
            Some([iterations |-> Len(durs),
                  min_duration_ms |-> RMinSeq(durs),
                  max_duration_ms |-> RMaxSeq(durs)]))

(***************************************************************************)
(* _run_single_benchmark, one step per call it makes.                      *)
(***************************************************************************)
MemoryError == << "access denied" >>

\* What a call of _get_memory_usage can do: return the reading of the last
\* call (nominal), return another reading or raise (both counted against
\* budget); with psutil broken every call raises.
MemoryOutcomes ==
    IF psutil = "broken"
    THEN { [raises |-> TRUE, exc |-> MemoryError, value |-> R(0), cost |-> 0] }
    ELSE { [raises |-> FALSE, exc |-> << >>, value |-> lastReading, cost |-> 0] }
         \cup { [raises |-> FALSE, exc |-> << >>, value |-> v, cost |-> 1] :
                    v \in Readings(psutil) \ { lastReading } }
         \cup { [raises |-> TRUE, exc |-> MemoryError, value |-> R(0), cost |-> 1] :
                    m \in { psutil } \cap { "ok" } }

\* Line 225.
GetInitialMemory ==
    /\ pc = "initial_memory"
    /\ \E o \in MemoryOutcomes :
        /\ o.cost <= budget
        /\ budget' = budget - o.cost
        /\ IF o.raises
           THEN /\ ret' = Some(FailedResult(CurrentProbe.name, o.exc))
                /\ pc' = "returned"
                /\ UNCHANGED << initial_memory, lastReading >>
           ELSE /\ initial_memory' = o.value
                /\ lastReading' = o.value
                /\ pc' = "iterate"
                /\ UNCHANGED ret
    /\ UNCHANGED << psutil, cat, idx, catResults, durations, calls, results,
                    total_duration, summary, csv, outcome >>
    /\ UNCHANGED fnVars
    /\ UNCHANGED toolVars
    /\ UNCHANGED exit_code

\* Lines 229-233: one iteration in which benchmark_func returns.
InvokeReturns ==
    /\ pc = "iterate"
    /\ Len(durations) < Iterations
    /\ \/ /\ durations' = Append(durations, Q(CurrentProbe.sleep_us, 1000))
          /\ UNCHANGED budget
       \/ /\ budget > 0
          /\ budget' = budget - 1
          /\ \E d \in SlowDurations : durations' = Append(durations, d)
    /\ calls' = calls + 1
    /\ UNCHANGED << pc, psutil, lastReading, cat, idx, catResults,
                    initial_memory, ret, results, total_duration, summary,
                    csv, outcome >>
    /\ UNCHANGED fnVars
    /\ UNCHANGED toolVars
    /\ UNCHANGED exit_code

\* Lines 231, 259-267: one iteration in which benchmark_func raises.
InvokeRaises ==
    /\ pc = "iterate"
    /\ Len(durations) < Iterations
    /\ budget > 0
    /\ budget' = budget - 1
    /\ calls' = calls + 1
    /\ \E exc \in Exceptions :
        ret' = Some(FailedResult(CurrentProbe.name, exc))
    /\ pc' = "returned"
    /\ UNCHANGED << psutil, lastReading, cat, idx, catResults, initial_memory,
                    durations, results, total_duration, summary, csv, outcome >>
    /\ UNCHANGED fnVars
    /\ UNCHANGED toolVars
    /\ UNCHANGED exit_code

\* Lines 236-257.
GetFinalMemory ==
    /\ pc = "iterate"
    /\ Len(durations) = Iterations
    /\ \E o \in MemoryOutcomes :
        /\ o.cost <= budget
        /\ budget' = budget - o.cost
        /\ IF o.raises
           THEN /\ ret' = Some(FailedResult(CurrentProbe.name, o.exc))
                /\ UNCHANGED lastReading
           ELSE /\ ret' = Some(SuccessResult(CurrentProbe.name, durations,
                                             initial_memory, o.value))
                /\ lastReading' = o.value
    /\ pc' = "returned"
    /\ UNCHANGED << psutil, cat, idx, catResults, initial_memory, durations,
                    calls, results, total_duration, summary, csv, outcome >>
    /\ UNCHANGED fnVars
    /\ UNCHANGED toolVars
    /\ UNCHANGED exit_code

(***************************************************************************)
(* _run_core_benchmarks and its four siblings: the loop over the           *)
(* category's list.                                                        *)
(***************************************************************************)
\* The loop body appending only a Sample that succeeded.
AppendSuccessOnly ==
    /\ pc = "returned"
    /\ catResults' = IF ret[1].success THEN Append(catResults, ret[1]) ELSE catResults
    /\ ret' = None
    /\ durations' = << >>
    /\ calls' = 0
    /\ initial_memory' = R(0)
    /\ IF idx < Len(Benchmarks[cat])
       THEN idx' = idx + 1 /\ pc' = "initial_memory"
       ELSE idx' = idx /\ pc' = "extend"
    /\ UNCHANGED << psutil, budget, lastReading, cat, results, total_duration,
                    summary, csv, outcome >>
    /\ UNCHANGED fnVars
    /\ UNCHANGED toolVars
    /\ UNCHANGED exit_code

\* results.append(result); _print_benchmark_result(result); next probe.
AppendResult ==
    /\ pc = "returned"
    /\ catResults' = Append(catResults, ret[1])
    /\ ret' = None
    /\ durations' = << >>
    /\ calls' = 0
    /\ initial_memory' = R(0)
    /\ IF idx < Len(Benchmarks[cat])
       THEN idx' = idx + 1 /\ pc' = "initial_memory"
       ELSE idx' = idx /\ pc' = "extend"
    /\ UNCHANGED << psutil, budget, lastReading, cat, results, total_duration,
                    summary, csv, outcome >>
    /\ UNCHANGED fnVars
    /\ UNCHANGED toolVars
    /\ UNCHANGED exit_code

(***************************************************************************)
(* run_benchmark_suite.                                                    *)
(***************************************************************************)
TotalDurations == { R(1900), R(2600) }

\* Lines 85-99: results.extend(...) of the category that returned.
ExtendResults ==
    /\ pc = "extend"
    /\ results' = results \o catResults
    /\ catResults' = << >>
    /\ IF cat < Len(Benchmarks)
       THEN /\ cat' = cat + 1
            /\ idx' = 1
            /\ pc' = "initial_memory"
            /\ UNCHANGED total_duration
       ELSE /\ UNCHANGED << cat, idx >>
            /\ pc' = "summary"
            /\ \E t \in TotalDurations : total_duration' = t
    /\ UNCHANGED << psutil, budget, lastReading, initial_memory, durations,
                    calls, ret, summary, csv, outcome >>
    /\ UNCHANGED fnVars
    /\ UNCHANGED toolVars
    /\ UNCHANGED exit_code

\* Line 102 with the failed Samples removed from the caller's list, as a
\* filter applied in place would.
GenerateSummaryInPlace ==
    /\ pc = "summary"
    /\ summary' = Some(GenerateSummary(results, total_duration))
    /\ results' = SuccessfulResults(results)
    /\ pc' = "save"
    /\ UNCHANGED << psutil, budget, lastReading, cat, idx, catResults,
                    initial_memory, durations, calls, ret, total_duration,
                    csv, outcome >>
    /\ UNCHANGED fnVars
    /\ UNCHANGED toolVars
    /\ UNCHANGED exit_code

\* Line 102.
GenerateSummaryStep ==
    /\ pc = "summary"
    /\ summary' = Some(GenerateSummary(results, total_duration))
    /\ pc' = "save"
    /\ UNCHANGED << psutil, budget, lastReading, cat, idx, catResults,
                    initial_memory, durations, calls, ret, results,
                    total_duration, csv, outcome >>
    /\ UNCHANGED fnVars
    /\ UNCHANGED toolVars
    /\ UNCHANGED exit_code

\* f"{x:.2f}": x to the nearest hundredth, ties to even.
Round2(x) ==
    LET scaled == x.n * 100
        q == scaled \div x.d
        r == scaled % x.d
        up == (2 * r > x.d) \/ (2 * r = x.d /\ q % 2 = 1)
    IN  Q(IF up THEN q + 1 ELSE q, 100)

\* Lines 515-518 with the category computed for every Sample.
CsvRowAlwaysCategorized(result) ==
    [name |-> result.name,
     duration_ms |-> result.duration_ms,
     memory_mb |-> result.memory_mb,
     cpu_percent |-> result.cpu_percent,
     success |-> result.success,
     category |-> CategorizePerformance(result)]

\* One line of the CSV summary, lines 515-518.
CsvRow(result) ==
    [name |-> result.name,
     duration_ms |-> Round2(result.duration_ms),
     memory_mb |-> Round2(result.memory_mb),
     cpu_percent |-> Round2(result.cpu_percent),
     success |-> result.success,
     category |-> IF result.success THEN CategorizePerformance(result) ELSE "failed"]

\* Line 115.
SaveResults ==
    /\ pc = "save"
    /\ csv' = [i \in 1..Len(results) |-> CsvRow(results[i])]
    /\ pc' = "reports"
    /\ UNCHANGED << psutil, budget, lastReading, cat, idx, catResults,
                    initial_memory, durations, calls, ret, results,
                    total_duration, summary, outcome >>
    /\ UNCHANGED fnVars
    /\ UNCHANGED toolVars
    /\ UNCHANGED exit_code

\* The keys of the summary the HTML report subscripts, lines 577-664.
ReportKeys ==
    { "success_rate", "successful", "total_tests", "performance_stats",
      "memory_stats", "cpu_stats", "performance_categories", "recommendations" }

\* Lines 118-121: a missing key raises KeyError out of run_benchmark_suite.
GenerateReports ==
    /\ pc = "reports"
    /\ outcome' = IF ReportKeys \subseteq DOMAIN summary[1] THEN "returned" ELSE "raised"
    /\ pc' = "done"
    /\ UNCHANGED << psutil, budget, lastReading, cat, idx, catResults,
                    initial_memory, durations, calls, ret, results,
                    total_duration, summary, csv >>
    /\ UNCHANGED fnVars
    /\ UNCHANGED toolVars
    /\ UNCHANGED exit_code

\* Lines 764-779 returning 0 whenever run_benchmark_suite returned.
MainIgnoresFailures ==
    /\ pc = "done"
    /\ exit_code' = Some(IF outcome = "raised" THEN 1 ELSE 0)
    /\ pc' = "exited"
    /\ UNCHANGED << psutil, budget, lastReading, cat, idx, catResults,
                    initial_memory, durations, calls, ret, results,
                    total_duration, summary, csv, outcome >>
    /\ UNCHANGED fnVars
    /\ UNCHANGED toolVars

\* main, lines 764-779, from the return or raise of run_benchmark_suite:
\* the handler of line 777 returns 1 for an exception raised by the suite
\* or by the subscripts of lines 772-775.
Main ==
    /\ pc = "done"
    /\ exit_code' =
           IF outcome = "raised" THEN Some(1)
           ELSE IF ~({ "success_rate", "performance_stats", "failed" }
                        \subseteq DOMAIN summary[1]) THEN Some(1)
           ELSE IF summary[1].failed = 0 THEN Some(0)
           ELSE Some(1)
    /\ pc' = "exited"
    /\ UNCHANGED << psutil, budget, lastReading, cat, idx, catResults,
                    initial_memory, durations, calls, ret, results,
                    total_duration, summary, csv, outcome >>
    /\ UNCHANGED fnVars
    /\ UNCHANGED toolVars

\* A Contents.json document: whether the file is there and parses (kind),
\* how it is laid out (format), and, for a JSON object, its 'images' value
\* (Optional: a list of entries) and its 'info' value.
Document(kind, format, images, info) ==
    [kind |-> kind, format |-> format, images |-> images, info |-> info]

NoDocument == Document("absent", "", None, "")

ConvertIdle ==
    /\ file = NoDocument
    /\ writes = 0
    /\ creturns = << >>

\* No catalog on disk.
CatalogIdle ==
    /\ assets_dir = FALSE
    /\ catalog = << >>
    /\ catalog_info = NoDocument

ValidateIdle ==
    /\ stage = 0
    /\ all_valid = TRUE
    /\ missing_assets = << >>
    /\ incomplete_assets = << >>
    /\ vresult = ""
    /\ vexit = None

TestIdle ==
    /\ tree = << >>
    /\ tnext = 0
    /\ test_results = << >>
    /\ pass_rate = None
    /\ verdict = ""

IconIdle ==
    /\ icon_source = "absent"
    /\ appicon = << >>
    /\ icons_written = 0
    /\ iret = None

BuildIdle ==
    /\ pil = TRUE
    /\ bstage = 0
    /\ text_files = { }
    /\ total_converted = None

ToolIdle ==
    ConvertIdle /\ CatalogIdle /\ ValidateIdle /\ TestIdle /\ IconIdle /\ BuildIdle

DefaultSample == BenchmarkResult("", R(0), R(0), R(0), TRUE, None, None)

FnIdle ==
    /\ data = << >>
    /\ percentile = 0
    /\ pret = None
    /\ sample = DefaultSample
    /\ clocals = None
    /\ cret = None

SuiteIdle ==
    /\ budget = 0
    /\ cat = 1
    /\ idx = 1
    /\ catResults = << >>
    /\ initial_memory = R(0)
    /\ durations = << >>
    /\ calls = 0
    /\ ret = None
    /\ summary = None
    /\ csv = << >>
    /\ outcome = ""
    /\ exit_code = None

\* The state run_benchmark_suite starts from, line 82.
Init ==
    /\ pc = "initial_memory"
    /\ ToolIdle
    /\ psutil \in { "ok", "missing", "broken" }
    /\ budget = MaxEvents
    /\ lastReading = FirstReading(psutil)
    /\ cat = 1
    /\ idx = 1
    /\ catResults = << >>
    /\ initial_memory = R(0)
    /\ durations = << >>
    /\ calls = 0
    /\ ret = None
    /\ results = << >>
    /\ total_duration = R(0)
    /\ summary = None
    /\ csv = << >>
    /\ outcome = ""
    /\ exit_code = None
    /\ FnIdle

Next ==
    \/ GetInitialMemory
    \/ InvokeReturns
    \/ InvokeRaises
    \/ GetFinalMemory
    \/ AppendResult
    \/ ExtendResults
    \/ GenerateSummaryStep
    \/ SaveResults
    \/ GenerateReports
    \/ Main

Spec == Init /\ [][Next]_vars

(***************************************************************************)
(* _run_single_benchmark on its own: any configured probe, in an           *)
(* environment that may produce up to MaxProbeEvents non-nominal events    *)
(* during the one call.                                                    *)
(***************************************************************************)
MaxProbeEvents == 3

InitProbe ==
    /\ pc = "initial_memory"
    /\ ToolIdle
    /\ psutil \in { "ok", "missing", "broken" }
    /\ budget = MaxProbeEvents
    /\ lastReading \in Readings(psutil)
    /\ cat \in 1..Len(Benchmarks)
    /\ idx \in 1..Len(Benchmarks[cat])
    /\ catResults = << >>
    /\ initial_memory = R(0)
    /\ durations = << >>
    /\ calls = 0
    /\ ret = None
    /\ results = << >>
    /\ total_duration = R(0)
    /\ summary = None
    /\ csv = << >>
    /\ outcome = ""
    /\ exit_code = None
    /\ FnIdle

NextProbe ==
    \/ GetInitialMemory
    \/ InvokeReturns
    \/ InvokeRaises
    \/ GetFinalMemory

SpecProbe == InitProbe /\ [][NextProbe]_vars

(***************************************************************************)
(* _generate_summary on its own: any list of up to MaxSamples Samples      *)
(* drawn from SummarySamples, and any list of up to MaxPlain Samples that  *)
(* are each the plain success or the plain failure, and any list of up to  *)
(* MaxEdge Samples that sit on or just above the recommendation            *)
(* thresholds.  total_duration, which the builder only copies into the    *)
(* summary, varies over TotalDurations for the last two kinds of list.     *)
(***************************************************************************)
MaxSamples == 3
MaxPlain == 10
MaxEdge == 5

AllProbes ==
    CoreBenchmarks \o MemoryBenchmarks \o UiBenchmarks \o NetworkBenchmarks
        \o AiBenchmarks

SummaryDurations == { R(50), R(101), R(1001) }
SummaryMemory == { R(5), R(60) }
SummaryCpu == { R(10), R(51) }

\* The Samples a position of a list may hold, before they are named: a
\* failed Sample is the one the runner builds, or one whose metrics are
\* not zero.
SummarySamples ==
    { BenchmarkResult("", d, m, c, TRUE, None, None) :
        d \in SummaryDurations, m \in SummaryMemory, c \in SummaryCpu }
    \cup { FailedResult("", << "timeout" >>),
           BenchmarkResult("", R(9999), R(999), R(99), FALSE, Some("timeout"), None) }

PlainSamples ==
    { BenchmarkResult("", R(10), R(1), R(1), TRUE, None, None),
      FailedResult("", << "timeout" >>) }

\* Successes whose metrics are the thresholds of lines 475, 483 and 490,
\* or one metric just above its threshold.
EdgeSamples ==
    { BenchmarkResult("", R(100), R(25), R(50), TRUE, None, None),
      BenchmarkResult("", R(101), R(25), R(50), TRUE, None, None),
      BenchmarkResult("", R(100), R(26), R(50), TRUE, None, None),
      BenchmarkResult("", R(100), R(25), R(51), TRUE, None, None) }

\* The list f with position i named after the i-th configured probe.
Named(f) == [i \in 1..Len(f) |-> [f[i] EXCEPT !.name = AllProbes[i].name]]

InitSummary ==
    /\ pc = "summary"
    /\ ToolIdle
    /\ psutil = "ok"
    /\ lastReading = FirstReading("ok")
    /\ SuiteIdle
    /\ \/ /\ \E k \in 0..MaxSamples :
                 \E f \in [1..k -> SummarySamples] : results = Named(f)
          /\ total_duration = R(1900)
       \/ /\ \/ \E k \in 0..MaxPlain :
                    \E f \in [1..k -> PlainSamples] : results = Named(f)
             \/ \E k \in 0..MaxEdge :
                    \E f \in [1..k -> EdgeSamples] : results = Named(f)
          /\ total_duration \in TotalDurations
    /\ FnIdle

NextSummary == GenerateSummaryStep

SpecSummary == InitSummary /\ [][NextSummary]_vars

(***************************************************************************)
(* _percentile on its own: any list of up to MaxData of PercentileValues,  *)
(* the two lists of PercentileExamples, and any percentile in 0..100.      *)
(***************************************************************************)
MaxData == 5

PercentileValues == { R(10), R(30), Q(61, 2) }

ExampleData == << R(10), R(20), R(30), R(40), R(50) >>
ShuffledData == << R(40), R(10), R(50), R(20), R(30) >>
PercentileExamples == { ExampleData, ShuffledData }

InitPercentile ==
    /\ pc = "percentile_called"
    /\ ToolIdle
    /\ psutil = "ok"
    /\ lastReading = FirstReading("ok")
    /\ SuiteIdle
    /\ results = << >>
    /\ total_duration = R(0)
    /\ \/ \E k \in 0..MaxData : data \in [1..k -> PercentileValues]
       \/ data \in PercentileExamples
    /\ percentile \in 0..100
    /\ pret = None
    /\ sample = DefaultSample
    /\ clocals = None
    /\ cret = None

CallPercentile ==
    /\ pc = "percentile_called"
    /\ pret' = Some(Percentile(data, percentile))
    /\ pc' = "percentile_returned"
    /\ UNCHANGED suiteVars
    /\ UNCHANGED toolVars
    /\ UNCHANGED << data, percentile, sample, clocals, cret >>

NextPercentile == CallPercentile

SpecPercentile == InitPercentile /\ [][NextPercentile]_vars

(***************************************************************************)
(* _categorize_performance on its own: any successful Sample whose         *)
(* metrics lie on, next to or between the cutoffs.                         *)
(***************************************************************************)
ClassifyDurations ==
    { R(50), R(100), Q(2001, 20), R(500), R(501), R(1000), R(1001), R(5000),
      R(6000) }
ClassifyMemory ==
    { R(5), R(10), Q(101, 10), R(25), R(26), R(50), R(60), R(100), R(101) }
ClassifyCpu ==
    { R(10), R(20), R(21), R(50), R(51), R(80), Q(801, 10), R(100) }

InitClassify ==
    /\ pc = "categorize_called"
    /\ ToolIdle
    /\ psutil = "ok"
    /\ lastReading = FirstReading("ok")
    /\ SuiteIdle
    /\ results = << >>
    /\ total_duration = R(0)
    /\ data = << >>
    /\ percentile = 0
    /\ pret = None
    /\ sample \in { BenchmarkResult("probe", d, m, c, TRUE, None, None) :
                        d \in ClassifyDurations, m \in ClassifyMemory,
                        c \in ClassifyCpu }
    /\ clocals = None
    /\ cret = None

CallCategorize ==
    /\ pc = "categorize_called"
    /\ clocals' = Some(MetricCategories(sample))
    /\ cret' = Some(CategorizePerformance(sample))
    /\ pc' = "categorize_returned"
    /\ UNCHANGED suiteVars
    /\ UNCHANGED toolVars
    /\ UNCHANGED << data, percentile, pret, sample >>

NextClassify == CallCategorize

SpecClassify == InitClassify /\ [][NextClassify]_vars

(***************************************************************************)
(* Scripts/convert-assets-to-iphone.py.  An entry of an 'images' list is   *)
(* a JSON object with optional idiom, scale, filename and size, or a JSON  *)
(* value that is not an object.                                            *)
(***************************************************************************)
ImageEntry(idiom, scale, filename, size) ==
    [object |-> TRUE, idiom |-> idiom, scale |-> scale, filename |-> filename,
     size |-> size]

NotAnObject ==
    [object |-> FALSE, idiom |-> None, scale |-> None, filename |-> None,
     size |-> None]

\* Lines 20-22 with every entry's idiom set.
EveryIdiomToIphone(images) ==
    [i \in 1..Len(images) |-> [images[i] EXCEPT !.idiom = Some("iphone")]]

\* Lines 20-22: the loop over data['images'].
ConvertedImages(images) ==
    [i \in 1..Len(images) |->
        IF images[i].idiom = Some("universal")
        THEN [images[i] EXCEPT !.idiom = Some("iphone")]
        ELSE images[i]]

\* modified, line 18-23
Modified(images) == \E i \in 1..Len(images) : images[i].idiom = Some("universal")

\* Whether lines 14-23 raise: the file is missing or is not JSON, or
\* image.get is called on a value that has no get.
ConvertRaises(doc) ==
    \/ doc.kind # "object"
    \/ /\ doc.images # None
       /\ \E i \in 1..Len(doc.images[1]) : ~doc.images[1][i].object

\* What convert_contents_json_to_iphone returns for a file.
ConvertReturn(doc) ==
    /\ ~ConvertRaises(doc)
    /\ doc.images # None
    /\ Modified(doc.images[1])

\* The file after convert_contents_json_to_iphone, lines 25-28.
ConvertedFile(doc) ==
    IF ConvertReturn(doc)
    THEN [doc EXCEPT !.images = Some(ConvertedImages(doc.images[1])),
                     !.format = "indent2"]
    ELSE doc

MaxRuns == 2

\* convert_contents_json_to_iphone(file_path), lines 11-35.
ConvertContentsJson ==
    /\ pc = "convert"
    /\ Len(creturns) < MaxRuns
    /\ creturns' = Append(creturns, ConvertReturn(file))
    /\ file' = ConvertedFile(file)
    /\ writes' = IF ConvertReturn(file) THEN writes + 1 ELSE writes
    /\ UNCHANGED << pc, suiteVars, fnVars, catalogVars, validateVars, testVars, iconVars,
                    buildVars >>

MaxImages == 3

Idioms == { None, Some("universal"), Some("iphone"), Some("ipad") }

\* The entries a drawn 'images' list may hold.
ConvertEntries ==
    { ImageEntry(i, Some("1x"), Some("a.png"), None) : i \in Idioms }
    \cup { ImageEntry(i, Some("2x"), None, Some("20x20")) : i \in Idioms }
    \cup { NotAnObject }

InitConvert ==
    /\ pc = "convert"
    /\ psutil = "ok"
    /\ lastReading = FirstReading("ok")
    /\ SuiteIdle
    /\ results = << >>
    /\ total_duration = R(0)
    /\ FnIdle
    /\ CatalogIdle
    /\ ValidateIdle
    /\ TestIdle
    /\ IconIdle
    /\ BuildIdle
    /\ writes = 0
    /\ creturns = << >>
    /\ \/ file = NoDocument
       \/ file = Document("invalid", "compact", None, "")
       \/ \E fmt \in { "compact", "indent2" } :
            \/ file = Document("object", fmt, None, "xcode")
            \/ \E k \in 0..MaxImages : \E f \in [1..k -> ConvertEntries] :
                    file = Document("object", fmt, Some(f), "xcode")

NextConvert == ConvertContentsJson

SpecConvert == InitConvert /\ [][NextConvert]_vars

(***************************************************************************)
(* Scripts/validate-pet-assets.py.  An imageset is whether its directory   *)
(* exists, its Contents.json and the names of the files in it.             *)
(***************************************************************************)
REQUIRED_PET_ASSETS ==
    << "pet_baby", "pet_toddler", "pet_frog", "pet_hermit", "pet_seahorse",
       "pet_beaver", "pet_dolphin", "pet_wolf", "pet_bear", "pet_bison",
       "pet_elephant", "pet_rhino", "pet_alligator", "pet_adult", "pet_gold",
       "pet_ceo" >>

required_scales == << "1x", "2x", "3x" >>

Imageset(dir, contents, files) ==
    [dir |-> dir, contents |-> contents, files |-> files]

NoImageset == Imageset(FALSE, NoDocument, { })

\* The elements of a sequence.
Range(s) == { s[i] : i \in 1..Len(s) }

\* Lines 82-92: whether the loop over the images raises.  An image that is
\* not an object has no get (AttributeError); an image with a required
\* scale and no filename makes imageset_dir / None raise TypeError.
\* Neither is caught by the handler of line 110.
ImagesRaise(images) ==
    \E i \in 1..Len(images) :
        \/ ~images[i].object
        \/ /\ images[i].scale # None
           /\ images[i].scale[1] \in Range(required_scales)
           /\ images[i].filename = None

\* found_scales, lines 86-87
FoundScales(images) ==
    { images[i].scale[1] : i \in { j \in 1..Len(images) :
        images[j].scale # None /\ images[j].scale[1] \in Range(required_scales) } }

\* missing_files, lines 90-92, as the positions of the entries concerned
MissingFiles(images, files) ==
    { i \in 1..Len(images) :
        /\ images[i].scale # None
        /\ images[i].scale[1] \in Range(required_scales)
        /\ images[i].filename[1] \notin files }

\* What one pass of the loop body of lines 54-113 does for pet_name with
\* imageset im: whether it raises, and what it appends to missing_assets
\* and to incomplete_assets.
StageOutcome(pet_name, im) ==
    LET Result(raises, missing, incomplete) ==
            [raises |-> raises, missing |-> missing, incomplete |-> incomplete]
        images == IF im.contents.images = None THEN << >>
                  ELSE im.contents.images[1]
    IN  IF ~im.dir THEN Result(FALSE, << pet_name >>, << >>)
        ELSE IF im.contents.kind = "absent" THEN Result(FALSE, << >>, << pet_name >>)
        ELSE IF im.contents.kind = "invalid" THEN Result(FALSE, << >>, << pet_name >>)
        ELSE IF im.contents.kind # "object" THEN Result(TRUE, << >>, << >>)
        ELSE IF ImagesRaise(images) THEN Result(TRUE, << >>, << >>)
        ELSE LET missing_scales == Range(required_scales) \ FoundScales(images)
                 missing_files == MissingFiles(images, im.files)
             IN  Result(FALSE, << >>,
                        (IF missing_scales # { } THEN << pet_name >> ELSE << >>)
                        \o (IF missing_files # { } THEN << pet_name >> ELSE << >>))

\* imageset_dir for a name, whether the catalog holds it or not.
ImagesetAt(c, name) == IF name \in DOMAIN c THEN c[name] ELSE NoImageset

\* Lines 38-52.
ValidateStart ==
    /\ pc \in { "validate_start", "built" }
    /\ IF ~assets_dir
       THEN /\ vresult' = "False"
            /\ pc' = "validate_returned"
            /\ UNCHANGED stage
       ELSE /\ stage' = 1
            /\ pc' = "validate_loop"
            /\ UNCHANGED vresult
    /\ all_valid' = TRUE
    /\ missing_assets' = << >>
    /\ incomplete_assets' = << >>
    /\ UNCHANGED << vexit, suiteVars, fnVars, convertVars, catalogVars, testVars, iconVars,
                    buildVars >>

\* Lines 54-113: one pass of the loop; an exception the handler of line
\* 110 does not catch leaves validate_pet_assets.
ValidateStage ==
    /\ pc = "validate_loop"
    /\ LET pet_name == REQUIRED_PET_ASSETS[stage]
           o == StageOutcome(pet_name, ImagesetAt(catalog, pet_name))
       IN  IF o.raises
           THEN /\ vresult' = "raised"
                /\ pc' = "validate_returned"
                /\ UNCHANGED << stage, all_valid, missing_assets, incomplete_assets >>
           ELSE /\ missing_assets' = missing_assets \o o.missing
                /\ incomplete_assets' = incomplete_assets \o o.incomplete
                /\ all_valid' = (all_valid /\ o.missing = << >> /\ o.incomplete = << >>)
                /\ stage' = stage + 1
                /\ pc' = IF stage < Len(REQUIRED_PET_ASSETS)
                         THEN "validate_loop" ELSE "validate_summary"
                /\ UNCHANGED vresult
    /\ UNCHANGED << vexit, suiteVars, fnVars, convertVars, catalogVars, testVars, iconVars,
                    buildVars >>

\* Lines 115-145: both branches return True.
ValidateSummary ==
    /\ pc = "validate_summary"
    /\ vresult' = "True"
    /\ pc' = "validate_returned"
    /\ UNCHANGED << stage, all_valid, missing_assets, incomplete_assets, vexit,
                    suiteVars, fnVars, convertVars, catalogVars, testVars, iconVars,
                    buildVars >>

\* Lines 157-171: sys.exit(0 if success else 1); an exception that left
\* validate_pet_assets ends the interpreter with status 1.
ValidateExit ==
    /\ pc = "validate_returned"
    /\ vexit' = Some(IF vresult = "True" THEN 0 ELSE 1)
    /\ pc' = "validate_exited"
    /\ UNCHANGED << stage, all_valid, missing_assets, incomplete_assets, vresult,
                    suiteVars, fnVars, convertVars, catalogVars, testVars, iconVars,
                    buildVars >>

\* The file name asset + suffix + ".png"
FileName(asset, suffix) == asset \o suffix \o ".png"

ScaleSuffix(scale) ==
    CASE scale = "1x" -> "" [] scale = "2x" -> "@2x" [] scale = "3x" -> "@3x"

\* An imageset with one entry and one file per scale.
CompleteImageset(asset, idiom) ==
    Imageset(TRUE,
             Document("object", "indent2",
                      Some([i \in 1..3 |->
                              ImageEntry(Some(idiom), Some(required_scales[i]),
                                         Some(FileName(asset, ScaleSuffix(required_scales[i]))),
                                         None)]),
                      "xcode"),
             { FileName(asset, ScaleSuffix(required_scales[i])) : i \in 1..3 })

\* The images of a complete imageset with entry i replaced by e.
WithEntry(asset, i, e) ==
    [CompleteImageset(asset, "universal").contents.images[1] EXCEPT ![i] = e]

\* The states of an imageset that is not complete.
OddImagesets(asset) ==
    LET c == CompleteImageset(asset, "universal")
        With(images, files) ==
            Imageset(TRUE, Document("object", "indent2", images, "xcode"), files)
    IN  << NoImageset,
          Imageset(TRUE, NoDocument, c.files),
          Imageset(TRUE, Document("invalid", "compact", None, ""), c.files),
          Imageset(TRUE, Document("array", "compact", None, ""), c.files),
          With(None, c.files),
          With(Some(SubSeq(c.contents.images[1], 1, 2)), c.files),
          With(c.contents.images, c.files \ { FileName(asset, "@2x") }),
          With(Some(SubSeq(c.contents.images[1], 1, 1)), { }),
          With(Some(WithEntry(asset, 2,
                  ImageEntry(Some("universal"), Some("2x"), None, None))), c.files),
          With(Some(WithEntry(asset, 3, NotAnObject)), c.files),
          With(Some(c.contents.images[1]
                    \o << ImageEntry(Some("universal"), Some("4x"), None, None) >>),
               c.files) >>

MaxOdd == 1

RequiredNames == Range(REQUIRED_PET_ASSETS)

InitValidate ==
    /\ pc = "validate_start"
    /\ psutil = "ok"
    /\ lastReading = FirstReading("ok")
    /\ SuiteIdle
    /\ results = << >>
    /\ total_duration = R(0)
    /\ FnIdle
    /\ ConvertIdle
    /\ ValidateIdle
    /\ TestIdle
    /\ IconIdle
    /\ BuildIdle
    /\ catalog_info = NoDocument
    /\ assets_dir \in BOOLEAN
    /\ IF assets_dir
       THEN \E odd \in SUBSET RequiredNames :
               /\ Cardinality(odd) <= MaxOdd
               /\ \E idiom \in { "universal", "iphone" } :
                  \E choice \in [odd -> DOMAIN OddImagesets(REQUIRED_PET_ASSETS[1])] :
                    catalog = [n \in RequiredNames |->
                                 IF n \in odd
                                 THEN OddImagesets(n)[choice[n]]
                                 ELSE CompleteImageset(n, idiom)]
       ELSE catalog = << >>

NextValidate == ValidateStart \/ ValidateStage \/ ValidateSummary \/ ValidateExit

SpecValidate == InitValidate /\ [][NextValidate]_vars

(***************************************************************************)
(* test_app_functionality.py, the static checker.  A path of the tree is   *)
(* whether it exists and which of the checks made on its content succeed;  *)
(* a check is named by the result it records.  A result is its name,       *)
(* passed and category.                                                    *)
(***************************************************************************)
TestResult(name, passed, category) ==
    [name |-> name, passed |-> passed, category |-> category]

\* An inspection of one path: the results recorded for the content when
\* the path exists, and what is recorded when it does not: a failed result
\* named absent ("fail"), nothing ("skip"), or, for a bare existence test,
\* the one result, failed ("exists").
Inspection(category, path, checks, otherwise, absent) ==
    [category |-> category, path |-> path, checks |-> checks,
     otherwise |-> otherwise, absent |-> absent]

Inspections ==
    << \* test_project_configuration, lines 60-105
       Inspection("Project Config", "project.yml",
                  << "iPhone-only configuration", "iOS 17 deployment target",
                     "App Group capability", "Widget extension target" >>,
                  "fail", "Project configuration"),
       \* test_app_intents, lines 107-160
       Inspection("App Intents", "SharedKit/Sources/SharedKit/TaskEntity.swift",
                  << "TaskEntity AppEntity conformance", "TaskQuery implementation" >>,
                  "fail", "TaskEntity"),
       Inspection("App Intents", "Widget/Sources/ProperAppIntents.swift",
                  << "Complete task intent", "Skip task intent",
                     "Next page intent", "Previous page intent" >>,
                  "fail", "App Intents file"),
       \* test_widget_configuration, lines 162-231
       Inspection("Widget", "Widget/Sources/TaskWidgetProvider.swift",
                  << "Hourly refresh timeline", "Nearest-hour task logic",
                     "AppIntent timeline provider" >>,
                  "fail", "Widget provider"),
       Inspection("Widget", "Widget/Sources/views/TaskLockScreenView.swift",
                  << "Circular widget", "Rectangular widget", "Inline widget",
                     "Interactive widget buttons" >>,
                  "fail", "Lock Screen views"),
       \* test_shared_store, lines 233-280
       Inspection("SharedStore", "SharedKit/Sources/SharedKit/SharedStoreActor.swift",
                  << "App Group identifier", "Grace minutes in SharedStore",
                     "TaskEntity support" >>,
                  "fail", "SharedStoreActor"),
       Inspection("SharedStore", "Tests/AppGroupTests.swift",
                  << >>, "exists", "App Group tests"),
       \* test_pet_evolution, lines 282-341
       Inspection("Pet Evolution", "SharedKit/Sources/SharedKit/PetEvolutionEngine.swift",
                  << "XP threshold method", "Pet image mapping",
                     "Stage index calculation" >>,
                  "fail", "PetEvolutionEngine"),
       Inspection("Pet Evolution", "StageConfig.json",
                  << "Stage configuration" >>, "fail", "Stage configuration"),
       Inspection("Pet Evolution", "Widget/Assets.xcassets",
                  << "Widget pet images" >>, "fail", "Widget pet assets"),
       \* test_settings, lines 343-390
       Inspection("Settings", "App/Sources/SettingsView.swift",
                  << "Grace Minutes setting", "Privacy Policy link",
                     "Grace Minutes help text" >>,
                  "fail", "SettingsView"),
       Inspection("Settings", "App/Sources/PrivacyPolicyView.swift",
                  << >>, "exists", "PrivacyPolicyView"),
       \* test_celebration_system, lines 392-441
       Inspection("Celebration", "App/Sources/CelebrationSystem.swift",
                  << "Haptic feedback", "Level-up celebration",
                     "Confetti animations" >>,
                  "fail", "CelebrationSystem"),
       Inspection("Celebration", "App/Sources/DataStore.swift",
                  << "DataStore celebration trigger" >>, "skip", ""),
       \* test_deep_links, lines 443-495
       Inspection("Deep Links", "App/DeepLink/URLRoutes.swift",
                  << "URL scheme handler", "Task deep link route" >>,
                  "fail", "URLRoutes"),
       Inspection("Deep Links", "Widget/Sources/TaskListWidget.swift",
                  << "Widget URL fallback" >>, "skip", ""),
       Inspection("Deep Links", "App/Sources/PetProgressApp.swift",
                  << "App onOpenURL handler" >>, "skip", ""),
       \* test_critical_files, lines 497-520
       Inspection("Critical Files", "App/PetProgress.entitlements",
                  << >>, "exists", "App entitlements"),
       Inspection("Critical Files", "Widget/PetProgressWidget.entitlements",
                  << >>, "exists", "Widget entitlements"),
       Inspection("Critical Files", "App/Info.plist",
                  << >>, "exists", "App Info.plist"),
       Inspection("Critical Files", "Widget/Info.plist",
                  << >>, "exists", "Widget Info.plist"),
       Inspection("Critical Files", "App/Assets.xcassets/AppIcon.appiconset",
                  << >>, "exists", "App icon set"),
       Inspection("Critical Files", "Tests/NearestHourTests.swift",
                  << >>, "exists", "Nearest-hour tests"),
       Inspection("Critical Files", "Tests/PetEvolutionWidgetTests.swift",
                  << >>, "exists", "Pet evolution tests"),
       \* test_ci_configuration, lines 522-559
       Inspection("CI/CD", ".github/workflows/ios-sim.yml",
                  << "Xcode 16.4 pinned", "iOS Simulator creation",
                     "Test execution in CI" >>,
                  "fail", "CI workflow") >>

\* The categories in the order run_all_tests runs them, lines 45-54.
TestCategories ==
    << "Project Config", "App Intents", "Widget", "SharedStore",
       "Pet Evolution", "Settings", "Celebration", "Deep Links",
       "Critical Files", "CI/CD" >>

\* The results one inspection records on tree t.
Inspect(ins, t) ==
    IF ins.otherwise = "exists"
    THEN << TestResult(ins.absent, t[ins.path].exists, ins.category) >>
    ELSE IF t[ins.path].exists
    THEN [i \in 1..Len(ins.checks) |->
            TestResult(ins.checks[i], ins.checks[i] \in t[ins.path].found,
                       ins.category)]
    ELSE IF ins.otherwise = "fail"
    THEN << TestResult(ins.absent, FALSE, ins.category) >>
    ELSE << >>

RECURSIVE InspectFrom(_, _, _)
\* The results the inspections of one category record, from the i-th on.
InspectFrom(i, category, t) ==
    IF i > Len(Inspections) THEN << >>
    ELSE (IF Inspections[i].category = category
          THEN Inspect(Inspections[i], t) ELSE << >>)
         \o InspectFrom(i + 1, category, t)

\* Lines 45-54: whether run_all_tests calls the method of category next.
RunsNext(category) ==
    /\ tnext <= Len(TestCategories)
    /\ TestCategories[tnext] = category

\* The body of one test_* method.
TestCategory(category) ==
    /\ pc = "run_all_tests"
    /\ test_results' = test_results \o InspectFrom(1, category, tree)
    /\ tnext' = tnext + 1
    /\ UNCHANGED << pc, tree, pass_rate, verdict, suiteVars, fnVars,
                    convertVars, catalogVars, validateVars, iconVars, buildVars >>

test_project_configuration ==
    /\ RunsNext("Project Config")
    /\ TestCategory("Project Config")

test_app_intents ==
    /\ RunsNext("App Intents")
    /\ TestCategory("App Intents")

test_widget_configuration ==
    /\ RunsNext("Widget")
    /\ TestCategory("Widget")

test_shared_store ==
    /\ RunsNext("SharedStore")
    /\ TestCategory("SharedStore")

test_pet_evolution ==
    /\ RunsNext("Pet Evolution")
    /\ TestCategory("Pet Evolution")

test_settings ==
    /\ RunsNext("Settings")
    /\ TestCategory("Settings")

test_celebration_system ==
    /\ RunsNext("Celebration")
    /\ TestCategory("Celebration")

test_deep_links ==
    /\ RunsNext("Deep Links")
    /\ TestCategory("Deep Links")

test_critical_files ==
    /\ RunsNext("Critical Files")
    /\ TestCategory("Critical Files")

test_ci_configuration ==
    /\ RunsNext("CI/CD")
    /\ TestCategory("CI/CD")


\* x = y for two rationals in lowest terms
REq(x, y) == x.n = y.n /\ x.d = y.d

\* Lines 571-636.
print_summary ==
    /\ pc = "run_all_tests"
    /\ tnext > Len(TestCategories)
    /\ LET total == Len(test_results)
           passed == Cardinality({ i \in 1..total : test_results[i].passed })
           rate == IF total > 0 THEN Q(passed * 100, total) ELSE R(0)
       IN  /\ pass_rate' = Some(rate)
           /\ verdict' = IF REq(rate, R(100)) THEN "ALL TESTS PASSED"
                         ELSE IF RLeq(R(90), rate) THEN "mostly ready"
                         ELSE IF RLeq(R(70), rate) THEN "some issues"
                         ELSE "critical issues"
    /\ pc' = "tested"
    /\ UNCHANGED << tree, tnext, test_results, suiteVars, fnVars,
                    convertVars, catalogVars, validateVars, iconVars, buildVars >>

\* The paths the checker looks at.
TestPaths == { Inspections[i].path : i \in DOMAIN Inspections }

\* The checks made on the content of a path.
ChecksOf(path) ==
    UNION { Range(Inspections[i].checks) :
              i \in { j \in DOMAIN Inspections : Inspections[j].path = path } }

\* The ways a tree can fall short: a path that is absent, a check that
\* finds nothing.
Defects ==
    { << "absent", p >> : p \in TestPaths }
    \cup UNION { { << "unfound", p, c >> : c \in ChecksOf(p) } : p \in TestPaths }

MaxDefects == 2

InitTest ==
    /\ pc = "run_all_tests"
    /\ psutil = "ok"
    /\ lastReading = FirstReading("ok")
    /\ SuiteIdle
    /\ results = << >>
    /\ total_duration = R(0)
    /\ FnIdle
    /\ ConvertIdle
    /\ CatalogIdle
    /\ ValidateIdle
    /\ IconIdle
    /\ BuildIdle
    /\ tnext = 1
    /\ test_results = << >>
    /\ pass_rate = None
    /\ verdict = ""
    /\ \E f \in [1..MaxDefects -> Defects \cup { << "none" >> }] :
         LET ds == Range(f)
         IN  tree = [p \in TestPaths |->
                      [exists |-> << "absent", p >> \notin ds,
                       found |-> { c \in ChecksOf(p) : << "unfound", p, c >> \notin ds }]]

NextTest ==
    \/ test_project_configuration
    \/ test_app_intents
    \/ test_widget_configuration
    \/ test_shared_store
    \/ test_pet_evolution
    \/ test_settings
    \/ test_celebration_system
    \/ test_deep_links
    \/ test_critical_files
    \/ test_ci_configuration
    \/ print_summary

SpecTest == InitTest /\ [][NextTest]_vars

(***************************************************************************)
(* Tools/build_assets.py: the app icon set.                                *)
(***************************************************************************)
\* (filename, width, height)
APPICON_SIZES ==
    << << "icon-20@2x.png", 40, 40 >>,
       << "icon-20@3x.png", 60, 60 >>,
       << "icon-29@2x.png", 58, 58 >>,
       << "icon-29@3x.png", 87, 87 >>,
       << "icon-40@2x.png", 80, 80 >>,
       << "icon-40@3x.png", 120, 120 >>,
       << "icon-60@2x.png", 120, 120 >>,
       << "icon-60@3x.png", 180, 180 >>,
       << "icon-1024.png", 1024, 1024 >> >>

\* sub in s
Contains(sub, s) ==
    \E i \in 1..(Len(s) - Len(sub) + 1) : SubSeq(s, i, i + Len(sub) - 1) = sub

RECURSIVE Str(_)
\* str(n) for n >= 0
Str(n) ==
    LET digit == SubSeq("0123456789", (n % 10) + 1, (n % 10) + 1)
    IN  IF n < 10 THEN digit ELSE Str(n \div 10) \o digit

\* Lines 88-155: the entries appended for one row of the table.
AppiconEntry(filename, width, height) ==
    LET Entry(idiom, scale, size) ==
            << ImageEntry(Some(idiom), Some(scale), Some(filename), Some(size)) >>
    IN  IF Contains("1024", filename)
        THEN Entry("ios-marketing", "1x", Str(width) \o "x" \o Str(height))
        ELSE IF Contains("60", filename)
        THEN (IF Contains("2x", filename) THEN Entry("iphone", "2x", "60x60")
              ELSE Entry("iphone", "3x", "60x60"))
        ELSE IF Contains("40", filename)
        THEN (IF Contains("2x", filename) THEN Entry("iphone", "2x", "40x40")
              ELSE Entry("3x", "3x", "40x40"))
        ELSE IF Contains("29", filename)
        THEN (IF Contains("2x", filename) THEN Entry("iphone", "2x", "29x29")
              ELSE Entry("iphone", "3x", "29x29"))
        ELSE IF Contains("20", filename)
        THEN (IF Contains("2x", filename) THEN Entry("iphone", "2x", "20x20")
              ELSE Entry("iphone", "3x", "20x20"))
        ELSE << >>

RECURSIVE AppiconImages(_)
\* Lines 86-155: images after the loop over the rows of table.
AppiconImages(table) ==
    IF table = << >> THEN << >>
    ELSE AppiconEntry(table[1][1], table[1][2], table[1][3])
         \o AppiconImages(Tail(table))

create_appicon_contents ==
    Document("object", "indent2", Some(AppiconImages(APPICON_SIZES)), "xcode")

\* Lines 279-286: without the source nothing is touched; otherwise the
\* directory is made and the source opened, which can raise.
ProcessAppIcon ==
    /\ pc = "process_app_icon"
    /\ IF icon_source = "absent"
       THEN /\ iret' = Some(0)
            /\ pc' = "icon_returned"
            /\ UNCHANGED appicon
       ELSE /\ appicon' = [appicon EXCEPT !.dir = TRUE]
            /\ IF icon_source = "unreadable"
               THEN /\ iret' = Some(0)
                    /\ pc' = "icon_returned"
               ELSE /\ pc' = "icon_save"
                    /\ UNCHANGED iret
    /\ icons_written' = 0
    /\ UNCHANGED << icon_source, suiteVars, fnVars, convertVars, catalogVars,
                    validateVars, testVars, buildVars >>

\* Lines 298-303: one pass of the loop, the save succeeding.
SaveIcon ==
    /\ pc = "icon_save"
    /\ icons_written < Len(APPICON_SIZES)
    /\ appicon' = [appicon EXCEPT
                     !.files = @ \cup { APPICON_SIZES[icons_written + 1][1] }]
    /\ icons_written' = icons_written + 1
    /\ UNCHANGED << pc, icon_source, iret, suiteVars, fnVars, convertVars,
                    catalogVars, validateVars, testVars, buildVars >>

\* Lines 298-303 and 312-314: the save raising.
SaveIconRaises ==
    /\ pc = "icon_save"
    /\ icons_written < Len(APPICON_SIZES)
    /\ iret' = Some(0)
    /\ pc' = "icon_returned"
    /\ UNCHANGED << icon_source, appicon, icons_written, suiteVars, fnVars,
                    convertVars, catalogVars, validateVars, testVars, buildVars >>

\* Lines 305-310.
WriteAppiconContents ==
    /\ pc = "icon_save"
    /\ icons_written = Len(APPICON_SIZES)
    /\ appicon' = [appicon EXCEPT !.contents = create_appicon_contents]
    /\ iret' = Some(icons_written)
    /\ pc' = "icon_returned"
    /\ UNCHANGED << icon_source, icons_written, suiteVars, fnVars, convertVars,
                    catalogVars, validateVars, testVars, buildVars >>

\* Files an earlier run or a person may have left in the icon set.
StaleIcons == { "icon-20@2x.png", "icon-1024.png", "icon-76@2x.png" }

InitIcon ==
    /\ pc = "process_app_icon"
    /\ psutil = "ok"
    /\ lastReading = FirstReading("ok")
    /\ SuiteIdle
    /\ results = << >>
    /\ total_duration = R(0)
    /\ FnIdle
    /\ ConvertIdle
    /\ CatalogIdle
    /\ ValidateIdle
    /\ TestIdle
    /\ BuildIdle
    /\ icon_source \in { "absent", "unreadable", "ok" }
    /\ \/ appicon = NoImageset
       \/ \E contents \in { NoDocument,
                             Document("object", "compact", Some(<< >>), "xcode") } :
          \E files \in SUBSET StaleIcons :
            appicon = Imageset(TRUE, contents, files)
    /\ icons_written = 0
    /\ iret = None

NextIcon == ProcessAppIcon \/ SaveIcon \/ SaveIconRaises \/ WriteAppiconContents

SpecIcon == InitIcon /\ [][NextIcon]_vars

(***************************************************************************)
(* Scripts/build_assets.py, and the converter and the validator run on     *)
(* the catalog it builds.                                                  *)
(***************************************************************************)
Stage(index, name, threshold, asset) ==
    [index |-> index, name |-> name, threshold |-> threshold, asset |-> asset]

\* STAGES with the hermit crab under the name pet_crab.
StagesWithCrab ==
    << Stage(0, "Frog", 10, "pet_frog"),
       Stage(1, "Hermit Crab", 25, "pet_crab"),
       Stage(2, "Seahorse", 40, "pet_seahorse"),
       Stage(3, "Dolphin", 55, "pet_dolphin"),
       Stage(4, "Alligator", 75, "pet_alligator"),
       Stage(5, "Beaver", 95, "pet_beaver"),
       Stage(6, "Wolf", 120, "pet_wolf"),
       Stage(7, "Bear", 145, "pet_bear"),
       Stage(8, "Bison", 175, "pet_bison"),
       Stage(9, "Elephant", 205, "pet_elephant"),
       Stage(10, "Rhino", 240, "pet_rhino"),
       Stage(11, "Baby", 285, "pet_baby"),
       Stage(12, "Toddler", 335, "pet_toddler"),
       Stage(13, "Adult", 390, "pet_adult"),
       Stage(14, "CEO", 450, "pet_ceo"),
       Stage(15, "Gold", 0, "pet_gold") >>

STAGES ==
    << Stage(0, "Frog", 10, "pet_frog"),
       Stage(1, "Hermit Crab", 25, "pet_hermit"),
       Stage(2, "Seahorse", 40, "pet_seahorse"),
       Stage(3, "Dolphin", 55, "pet_dolphin"),
       Stage(4, "Alligator", 75, "pet_alligator"),
       Stage(5, "Beaver", 95, "pet_beaver"),
       Stage(6, "Wolf", 120, "pet_wolf"),
       Stage(7, "Bear", 145, "pet_bear"),
       Stage(8, "Bison", 175, "pet_bison"),
       Stage(9, "Elephant", 205, "pet_elephant"),
       Stage(10, "Rhino", 240, "pet_rhino"),
       Stage(11, "Baby", 285, "pet_baby"),
       Stage(12, "Toddler", 335, "pet_toddler"),
       Stage(13, "Adult", 390, "pet_adult"),
       Stage(14, "CEO", 450, "pet_ceo"),
       Stage(15, "Gold", 0, "pet_gold") >>

\* create_imageset_contents(asset_name), lines 71-95
create_imageset_contents(asset_name) ==
    Document("object", "indent2",
             Some(<< ImageEntry(Some("universal"), Some("1x"),
                                Some(asset_name \o ".png"), None),
                     ImageEntry(Some("universal"), Some("2x"),
                                Some(asset_name \o "@2x.png"), None),
                     ImageEntry(Some("universal"), Some("3x"),
                                Some(asset_name \o "@3x.png"), None) >>),
             "xcode")

\* appicon_contents, lines 116-162: eight entries without a file name
appicon_contents ==
    LET Slot(scale, size) == ImageEntry(Some("iphone"), Some(scale), None, Some(size))
    IN  Document("object", "indent2",
                 Some(<< Slot("2x", "20x20"), Slot("3x", "20x20"),
                         Slot("2x", "29x29"), Slot("3x", "29x29"),
                         Slot("2x", "40x40"), Slot("3x", "40x40"),
                         Slot("2x", "60x60"), Slot("3x", "60x60") >>),
                 "xcode")

\* f with v at k, whether k was in its domain or not
Put(f, k, v) == [x \in DOMAIN f \cup { k } |-> IF x = k THEN v ELSE f[x]]

\* The name under which the catalog holds AppIcon.appiconset.
AppIconSet == "AppIcon"

\* create_asset_catalog, lines 97-166: the directory, the catalog's
\* Contents.json and the icon set.
CreateAssetCatalog ==
    /\ pc = "create_asset_catalog"
    /\ assets_dir' = TRUE
    /\ catalog_info' = Document("object", "indent2", None, "xcode")
    /\ catalog' = Put(catalog, AppIconSet,
                      Imageset(TRUE, appicon_contents,
                               ImagesetAt(catalog, AppIconSet).files))
    /\ bstage' = 1
    /\ pc' = "create_pet_assets"
    /\ UNCHANGED << pil, text_files, total_converted, suiteVars, fnVars,
                    convertVars, validateVars, testVars, iconVars >>

\* Lines 168-194: one pass of the loop over STAGES.
CreatePetAsset ==
    /\ pc = "create_pet_assets"
    /\ LET asset_name == STAGES[bstage].asset
           written == { asset_name \o scale \o ".png" : scale \in { "", "@2x", "@3x" } }
       IN  /\ catalog' = Put(catalog, asset_name,
                             Imageset(TRUE, create_imageset_contents(asset_name),
                                      ImagesetAt(catalog, asset_name).files \cup written))
           /\ text_files' = IF pil THEN text_files \ written
                            ELSE text_files \cup written
    /\ bstage' = bstage + 1
    /\ pc' = IF bstage < Len(STAGES) THEN "create_pet_assets" ELSE "built"
    /\ UNCHANGED << assets_dir, catalog_info, pil, total_converted, suiteVars,
                    fnVars, convertVars, validateVars, testVars, iconVars >>

\* The converter's main, lines 37-54, run where the catalog is: every
\* Contents.json under it goes through convert_contents_json_to_iphone.
ConvertMain ==
    /\ pc = "built"
    /\ catalog' = [n \in DOMAIN catalog |->
                     [catalog[n] EXCEPT !.contents = ConvertedFile(@)]]
    /\ catalog_info' = ConvertedFile(catalog_info)
    /\ total_converted' =
           Some(Cardinality({ n \in DOMAIN catalog : ConvertReturn(catalog[n].contents) })
                + (IF ConvertReturn(catalog_info) THEN 1 ELSE 0))
    /\ UNCHANGED << pc, assets_dir, pil, bstage, text_files, suiteVars, fnVars,
                    convertVars, validateVars, testVars, iconVars >>

\* The catalog before the builder runs: none, or one in which the first k
\* required imagesets are all complete or all in the same other state.
InitPipeline ==
    /\ pc = "create_asset_catalog"
    /\ psutil = "ok"
    /\ lastReading = FirstReading("ok")
    /\ SuiteIdle
    /\ results = << >>
    /\ total_duration = R(0)
    /\ FnIdle
    /\ ConvertIdle
    /\ ValidateIdle
    /\ TestIdle
    /\ IconIdle
    /\ pil \in BOOLEAN
    /\ bstage = 0
    /\ text_files = { }
    /\ total_converted = None
    /\ \/ /\ assets_dir = FALSE
          /\ catalog = << >>
          /\ catalog_info = NoDocument
       \/ /\ assets_dir = TRUE
          /\ catalog_info \in { NoDocument, Document("object", "compact", None, "xcode") }
          /\ \E k \in 0..Len(REQUIRED_PET_ASSETS) :
             \E j \in 0..Len(OddImagesets(REQUIRED_PET_ASSETS[1])) :
                catalog = [n \in { REQUIRED_PET_ASSETS[i] : i \in 1..k } |->
                             IF j = 0 THEN CompleteImageset(n, "iphone")
                             ELSE OddImagesets(n)[j]]

NextPipeline ==
    \/ CreateAssetCatalog
    \/ CreatePetAsset
    \/ ConvertMain
    \/ ValidateStart
    \/ ValidateStage
    \/ ValidateSummary
    \/ ValidateExit

SpecPipeline == InitPipeline /\ [][NextPipeline]_vars

(***************************************************************************)
(* Properties.                                                             *)
(***************************************************************************)
\* The tier of value v under inclusive cutoffs t1 < t2 < t3.
TierOf(v, t1, t2, t3) ==
    IF RLeq(v, R(t1)) THEN 1
    ELSE IF RLeq(v, R(t2)) THEN 2
    ELSE IF RLeq(v, R(t3)) THEN 3
    ELSE 4

DurationTier(r) == TierOf(r.duration_ms, 100, 500, 1000)
MemoryTier(r) == TierOf(r.memory_mb, 10, 25, 50)
CpuTier(r) == TierOf(r.cpu_percent, 20, 50, 80)

TierIndex(c) ==
    CASE c = "excellent" -> 1
      [] c = "good" -> 2
      [] c = "acceptable" -> 3
      [] c = "poor" -> 4

\* C1: _percentile(data, p) is 0 for empty data and otherwise the element
\* of rank k = min(floor(len * p / 100), len - 1), counted from zero, of
\* data in ascending order: an element of data with at most k elements
\* strictly below it and at least k + 1 elements not above it; and
\* _percentile([10,20,30,40,50], 50) = 30.
C1_PercentileNearestRank ==
    pc = "percentile_returned" =>
        /\ data = << >> => pret = Some(R(0))
        /\ data # << >> =>
            LET n == Len(data)
                k == Min2((n * percentile) \div 100, n - 1)
                r == pret[1]
            IN  /\ \E i \in 1..n : data[i] = r
                /\ Cardinality({ i \in 1..n : RLess(data[i], r) }) <= k
                /\ Cardinality({ i \in 1..n : RLeq(data[i], r) }) >= k + 1
        /\ (data = ExampleData /\ percentile = 50) => pret = Some(R(30))

C1_Witness ==
    /\ pc = "percentile_returned"
    /\ data = ShuffledData
    /\ percentile = 50
    /\ pret = Some(R(30))

\* C2: _categorize_performance returns the worst of the three per-metric
\* tiers of the Sample: no metric's tier is worse than the result and some
\* metric's tier is the result; (50, 5, 10) is excellent and (50, 60, 10)
\* is poor.
C2_WorstOfThree ==
    pc = "categorize_returned" =>
        LET t == TierIndex(cret[1])
        IN  /\ DurationTier(sample) <= t
            /\ MemoryTier(sample) <= t
            /\ CpuTier(sample) <= t
            /\ t \in { DurationTier(sample), MemoryTier(sample), CpuTier(sample) }
            /\ (/\ sample.duration_ms = R(50)
                /\ sample.memory_mb = R(5)
                /\ sample.cpu_percent = R(10)) => cret = Some("excellent")
            /\ (/\ sample.duration_ms = R(50)
                /\ sample.memory_mb = R(60)
                /\ sample.cpu_percent = R(10)) => cret = Some("poor")

C2_Witness ==
    /\ pc = "categorize_returned"
    /\ sample.duration_ms = R(50)
    /\ sample.memory_mb = R(60)
    /\ sample.cpu_percent = R(10)
    /\ cret = Some("poor")

\* The threshold table with the 'poor' entry of every metric set to v.
WithPoor(v) ==
    [m \in DOMAIN Thresholds |-> [Thresholds[m] EXCEPT !.poor = v]]

PoorEntries == { 0, 60, 100000 }

\* C3: _get_category maps a value to excellent, good, acceptable or poor by
\* the inclusive cutoffs (100, 500, 1000) for duration_ms, (10, 25, 50) for
\* memory_mb and (20, 50, 80) for cpu_percent, and the table's 'poor' entry
\* does not influence the result.
C3_InclusiveCutoffs ==
    pc = "categorize_returned" =>
        /\ TierIndex(clocals[1].duration_category) = DurationTier(sample)
        /\ TierIndex(clocals[1].memory_category) = MemoryTier(sample)
        /\ TierIndex(clocals[1].cpu_category) = CpuTier(sample)
        /\ \A v \in PoorEntries :
            /\ GetCategoryIn(WithPoor(v), sample.duration_ms, "duration_ms")
                   = clocals[1].duration_category
            /\ GetCategoryIn(WithPoor(v), sample.memory_mb, "memory_mb")
                   = clocals[1].memory_category
            /\ GetCategoryIn(WithPoor(v), sample.cpu_percent, "cpu_percent")
                   = clocals[1].cpu_category

C3_Witness ==
    /\ pc = "categorize_returned"
    /\ sample.duration_ms = R(100)
    /\ sample.memory_mb = R(26)
    /\ sample.cpu_percent = Q(801, 10)
    /\ clocals = Some([duration_category |-> "excellent",
                       memory_category |-> "acceptable",
                       cpu_category |-> "poor"])

\* C4: every Sample _run_single_benchmark returns with success = false has
\* duration_ms = memory_mb = cpu_percent = 0 and no metadata, whichever
\* call raised.
C4_FailedSampleIsZeroed ==
    (pc = "returned" /\ ~ret[1].success) =>
        /\ ret[1].duration_ms = R(0)
        /\ ret[1].memory_mb = R(0)
        /\ ret[1].cpu_percent = R(0)
        /\ ret[1].metadata = None

\* The final memory reading raised after five timed iterations.
C4_Witness ==
    /\ pc = "returned"
    /\ ~ret[1].success
    /\ Len(durations) = 5
    /\ calls = 5
    /\ \E i \in 1..5 : durations[i] \in SlowDurations

\* C5: every Sample with success = false carries a non-empty error string,
\* and every Sample with success = true carries no error.
C5_ErrorNonEmptyIffFailed ==
    pc = "returned" =>
        /\ ~ret[1].success => (ret[1].error # None /\ ret[1].error[1] # "")
        /\ ret[1].success => ret[1].error = None

\* What has been recorded when the suite is at a given position.
Recorded == results \o catResults

\* C6: whichever probes raise, the suite runs every configured probe: a
\* probe whose work unit raised returns a failed Sample, the run has a next
\* step wherever it stands before its end, the Samples recorded so far are
\* those of the probes configured before the current one, in order, and
\* the finished result list holds exactly one Sample per configured probe,
\* 23 of them.
C6_EveryProbeRecorded ==
    /\ (pc = "returned" /\ calls > Len(durations)) => ~ret[1].success
    /\ pc = "iterate" => Len(durations) <= 5
    /\ pc = "returned" => ret # None
    /\ pc \in { "initial_memory", "iterate", "returned", "extend", "summary",
                "save", "reports", "done", "exited" }
    /\ \A i \in 1..Len(Recorded) : Recorded[i].name = AllProbes[i].name
    /\ pc \in { "initial_memory", "iterate", "returned" } =>
        /\ Len(Recorded) < 23
        /\ CurrentProbe = AllProbes[Len(Recorded) + 1]
    /\ pc \in { "summary", "save", "reports", "done", "exited" } =>
        Len(results) = 23

\* The third probe failed and the twenty probes after it were recorded.
C6_Witness ==
    /\ pc = "summary"
    /\ Len(results) = 23
    /\ ~results[3].success
    /\ \A i \in 4..23 : results[i].success

NumSuccessful == Cardinality({ i \in 1..Len(results) : results[i].success })
NumFailed == Cardinality({ i \in 1..Len(results) : ~results[i].success })

\* C7: with at least one success, success_rate = successful / total * 100
\* where total counts the failed Samples too; 10 Samples with 2 failures
\* give 80.
C7_SuccessRate ==
    (pc = "save" /\ NumSuccessful >= 1) =>
        /\ summary[1].success_rate.n * Len(results)
               = 100 * NumSuccessful * summary[1].success_rate.d
        /\ (Len(results) = 10 /\ NumFailed = 2) =>
               summary[1].success_rate = R(80)

C7_Witness ==
    /\ pc = "save"
    /\ Len(results) = 10
    /\ NumFailed = 2
    /\ summary[1].success_rate = R(80)

\* C8: with zero successful Samples (all failed, or none at all) the
\* summary has success_rate = 0, successful = 0, failed = the number of
\* Samples, and no performance_stats, memory_stats, cpu_stats,
\* performance_categories or recommendations.
C8_NoSuccessSummary ==
    (pc = "save" /\ NumSuccessful = 0) =>
        /\ DOMAIN summary[1] = { "total_tests", "successful", "failed",
                                 "success_rate", "total_duration_ms" }
        /\ summary[1].success_rate = R(0)
        /\ summary[1].successful = 0
        /\ summary[1].failed = Len(results)
        /\ summary[1].total_tests = Len(results)

C8_Witness ==
    /\ pc = "save"
    /\ Len(results) = 3
    /\ NumSuccessful = 0
    /\ summary[1].failed = 3

StatKeys ==
    { "performance_stats", "memory_stats", "cpu_stats",
      "performance_categories", "recommendations" }

\* C9: with at least one success, the performance_stats, memory_stats,
\* cpu_stats, performance_categories and recommendations of the summary
\* are those of the same list with its failed Samples removed.
C9_FailedSamplesIgnored ==
    (pc = "save" /\ NumSuccessful >= 1) =>
        LET clean == SelectSeq(results, IsSuccess)
            other == GenerateSummary(clean, total_duration)
        IN  /\ StatKeys \subseteq DOMAIN summary[1]
            /\ \A k \in StatKeys : summary[1][k] = other[k]
            /\ summary[1].successful = other.successful

\* A failed Sample with non-zero metrics stands between two successes.
C9_Witness ==
    /\ pc = "save"
    /\ Len(results) = 3
    /\ results[1].success
    /\ ~results[2].success
    /\ results[2].duration_ms = R(9999)
    /\ results[3].success

OverallTier(r) == Max3(DurationTier(r), MemoryTier(r), CpuTier(r))

\* C10: with at least one success, performance_categories has exactly the
\* keys excellent, good, acceptable and poor, each count is the number of
\* successful Samples of that overall tier, and the counts sum to
\* 'successful'.
C10_CategoryCounts ==
    (pc = "save" /\ NumSuccessful >= 1) =>
        LET counts == summary[1].performance_categories
        IN  /\ DOMAIN counts = { "excellent", "good", "acceptable", "poor" }
            /\ \A c \in DOMAIN counts :
                counts[c] = Cardinality({ i \in 1..Len(results) :
                                /\ results[i].success
                                /\ OverallTier(results[i]) = TierIndex(c) })
            /\ counts.excellent + counts.good + counts.acceptable + counts.poor
                   = summary[1].successful
            /\ summary[1].successful = NumSuccessful

\* A fast Sample that is poor on memory alone, a failure, and a good one.
C10_Witness ==
    /\ pc = "save"
    /\ Len(results) = 3
    /\ results[1].success
    /\ ~results[2].success
    /\ results[3].success
    /\ summary[1].performance_categories =
           [excellent |-> 0, good |-> 1, acceptable |-> 0, poor |-> 1]
    /\ results[1].duration_ms = R(50)
    /\ results[1].memory_mb = R(60)

(***************************************************************************)
(* Recommendations.                                                        *)
(***************************************************************************)
\* The positions of the successful Samples that exceed a rule's threshold.
Exceeding(rule) ==
    { i \in 1..Len(results) :
        /\ results[i].success
        /\ CASE rule = "slow" ->
                    results[i].duration_ms.n > 100 * results[i].duration_ms.d
             [] rule = "memory" ->
                    results[i].memory_mb.n > 25 * results[i].memory_mb.d
             [] rule = "cpu" ->
                    results[i].cpu_percent.n > 50 * results[i].cpu_percent.d }

RuleFires(rule) == Exceeding(rule) # { }

ThresholdRules == << "slow", "memory", "cpu" >>

\* The rules of the messages in a recommendation list, in order.
RulesOf(recs) == [i \in 1..Len(recs) |-> recs[i].rule]

IsThresholdMessage(m) == m.rule \in { "slow", "memory", "cpu" }

\* C11: the threshold recommendations of a summary with successes are those
\* of exactly the rules that apply, in the order duration, memory, CPU; a
\* rule applies iff some successful Sample is strictly above its threshold
\* (100 ms, 25 MB, 50 percent), whatever the other rules do, and its message
\* names the number of such Samples.
C11_ApplicableRulesInOrder ==
    (pc = "save" /\ NumSuccessful >= 1) =>
        LET emitted == SelectSeq(summary[1].recommendations, IsThresholdMessage)
        IN  /\ RulesOf(emitted) = SelectSeq(ThresholdRules, RuleFires)
            /\ \A i \in 1..Len(emitted) :
                   emitted[i].count = Cardinality(Exceeding(emitted[i].rule))

\* Two Samples above the memory threshold, one above the CPU threshold and
\* one on every threshold: the memory and CPU rules fire, the duration
\* rule does not.
C11_Witness ==
    /\ pc = "save"
    /\ Len(results) = 4
    /\ Cardinality(Exceeding("slow")) = 0
    /\ Cardinality(Exceeding("memory")) = 2
    /\ Cardinality(Exceeding("cpu")) = 1
    /\ \E i \in 1..4 : /\ results[i].duration_ms = R(100)
                        /\ results[i].memory_mb = R(25)
                        /\ results[i].cpu_percent = R(50)
    /\ RulesOf(summary[1].recommendations) = << "memory", "cpu" >>

\* The j-th smallest element of a set of positions.
NthOf(S, j) == CHOOSE i \in S : Cardinality({ m \in S : m < i }) = j - 1

\* C12: when k >= 1 successful Samples have duration_ms > 100, the duration
\* recommendation states the count k, not capped at 3, and lists the names
\* of the first min(3, k) of them in the order of the result list.
C12_SlowCountAndNames ==
    (pc = "save" /\ NumSuccessful >= 1 /\ Exceeding("slow") # { }) =>
        LET k == Cardinality(Exceeding("slow"))
            first == summary[1].recommendations[1]
        IN  /\ first.rule = "slow"
            /\ first.count = k
            /\ Len(first.names) = Min2(3, k)
            /\ \A j \in 1..Len(first.names) :
                   first.names[j] = results[NthOf(Exceeding("slow"), j)].name

\* Four slow Samples with a fast one between the first and the second.
C12_Witness ==
    /\ pc = "save"
    /\ Len(results) = 5
    /\ Exceeding("slow") = { 1, 3, 4, 5 }
    /\ summary[1].recommendations[1].count = 4
    /\ summary[1].recommendations[1].names =
           << results[1].name, results[3].name, results[4].name >>

\* The one message that is not a threshold recommendation.
Affirmation == Message("excellent", 0, << >>)

\* C13: the affirmation is among the recommendations iff none of the three
\* threshold rules fired, and then it is the whole list; the list of a
\* summary with successes is never empty; and Samples that all have
\* duration_ms = 10, memory_mb = 1, cpu_percent = 1 give exactly the one
\* affirmation.
C13_AffirmationIffNoRule ==
    (pc = "save" /\ NumSuccessful >= 1) =>
        LET recs == summary[1].recommendations
            none == \A i \in 1..Len(ThresholdRules) : ~RuleFires(ThresholdRules[i])
        IN  /\ (\E i \in 1..Len(recs) : recs[i] = Affirmation) <=> none
            /\ (\E i \in 1..Len(recs) : recs[i] = Affirmation)
                   => recs = << Affirmation >>
            /\ recs # << >>
            /\ (\A i \in 1..Len(results) :
                    /\ results[i].success
                    /\ results[i].duration_ms = R(10)
                    /\ results[i].memory_mb = R(1)
                    /\ results[i].cpu_percent = R(1)) => recs = << Affirmation >>

\* Ten Samples of (10, 1, 1).
C13_Witness ==
    /\ pc = "save"
    /\ Len(results) = 10
    /\ \A i \in 1..10 :
           /\ results[i].success
           /\ results[i].duration_ms = R(10)
           /\ results[i].memory_mb = R(1)
           /\ results[i].cpu_percent = R(1)
    /\ summary[1].recommendations = << Affirmation >>

C15_ExitCode ==
    pc = "exited" =>
        /\ Len(results) = 23
        /\ exit_code = Some(IF NumFailed = 0 THEN 0 ELSE 1)

\* Every probe failed and main returned 1.
C15_Witness ==
    /\ pc = "exited"
    /\ NumFailed = 23
    /\ outcome = "raised"
    /\ exit_code = Some(1)

(***************************************************************************)
(* Order of execution.                                                     *)
(***************************************************************************)
\* The number of probes configured in the categories before category c,
\* with 7 core probes and 4 in each other category.
ProbesBefore(c) == IF c = 1 THEN 0 ELSE 7 + 4 * (c - 2)

\* The category (1 core, 2 memory, 3 UI, 4 network, 5 AI) of position i of
\* the result list.
CategoryOfPosition(i) == IF i <= 7 THEN 1 ELSE 2 + ((i - 8) \div 4)

\* The configured lists in the order core, memory, UI, network, AI.
CategoryLists ==
    << CoreBenchmarks, MemoryBenchmarks, UiBenchmarks, NetworkBenchmarks,
       AiBenchmarks >>

\* C16: probes run one after another, categories in the order core,
\* memory, UI, network, AI and probes in configured order within a
\* category: while a probe is being measured the Samples appended so far
\* are exactly those of all probes before it, no iteration of a probe has
\* happened before the previous probe's Sample was appended, and the
\* result list is in that order, 7 core, then 4 memory, 4 UI, 4 network
\* and 4 AI Samples.
C16_OneAfterAnotherInOrder ==
    LET n == Len(Recorded)
    IN  /\ n <= 23
        /\ \A i \in 1..n :
               LET c == CategoryOfPosition(i)
               IN  Recorded[i].name = CategoryLists[c][i - ProbesBefore(c)].name
        /\ pc \in { "initial_memory", "iterate", "returned" } =>
               /\ n = ProbesBefore(cat) + idx - 1
               /\ Len(catResults) = idx - 1
               /\ Len(results) = ProbesBefore(cat)
               /\ CurrentProbe = CategoryLists[cat][idx]
        /\ pc \in { "initial_memory", "extend" } =>
               (calls = 0 /\ durations = << >> /\ ret = None)
        /\ (calls > 0 \/ durations # << >>) => pc \in { "iterate", "returned" }
        /\ pc = "extend" => n = ProbesBefore(cat) + Len(CategoryLists[cat])
        /\ pc \in { "summary", "save", "reports", "done", "exited" } =>
               /\ n = 7 + 4 + 4 + 4 + 4
               /\ catResults = << >>

\* The first memory probe is in its first iteration and the seven core
\* Samples, the fourth of them failed, are in the result list.
C16_Witness ==
    /\ pc = "iterate"
    /\ cat = 2
    /\ idx = 1
    /\ calls = 1
    /\ Len(results) = 7
    /\ ~results[4].success
    /\ results[7].name = "PetEvolution_StateCalculation"

(***************************************************************************)
(* The probe runner.                                                       *)
(***************************************************************************)
\* An invocation of the work unit raised: one more invocation was started
\* than durations were recorded.
InvocationRaised == calls > Len(durations)

\* C17: _run_single_benchmark invokes the work unit exactly 5 times when no
\* invocation raises, and the Sample's metadata then records iterations =
\* 5; it invokes it exactly k times when the k-th invocation, 1 <= k <= 5,
\* is the first to raise, and never again after a raise.
C17_InvocationCount ==
    /\ InvocationRaised =>
           /\ pc = "returned"
           /\ calls = Len(durations) + 1
           /\ calls \in 1..5
    /\ (pc = "returned" /\ ~InvocationRaised) =>
           /\ calls = 5
           /\ ret[1].metadata # None
           /\ ret[1].metadata[1].iterations = 5

\* C18: a successful Sample of the runner has duration_ms = the mean of its
\* 5 iteration durations and cpu_percent = min(100, duration_ms / 10), so
\* cpu_percent lies in 0..100 and is 100 for every mean of 1000 ms or more.
C18_CpuIsClampedTenth ==
    (pc = "returned" /\ ret[1].success) =>
        LET d == ret[1].duration_ms
            c == ret[1].cpu_percent
        IN  /\ Len(durations) = 5
            /\ RMulInt(d, 5) = RSum(durations)
            /\ d.n <= 1000 * d.d => c.n * 10 * d.d = d.n * c.d
            /\ d.n >= 1000 * d.d => c = R(100)
            /\ 0 <= c.n
            /\ c.n <= 100 * c.d

\* Two of the five iterations were slow: the mean is above 1000 ms.
C18_Witness ==
    /\ pc = "returned"
    /\ ret[1].success
    /\ ret[1].duration_ms.n > 1000 * ret[1].duration_ms.d
    /\ ret[1].cpu_percent = R(100)

\* C19: the memory_mb of every Sample is never negative, and that of a
\* successful Sample is max(0, final reading - initial reading): the
\* difference when the final reading is not below the initial one, and 0
\* when it is, as when the fallback 25 + (time mod 10) wraps around.
C19_MemoryDeltaClamped ==
    pc = "returned" =>
        /\ ret[1].memory_mb.n >= 0
        /\ ret[1].success =>
            LET final == lastReading
                initial == initial_memory
                below == final.n * initial.d < initial.n * final.d
            IN  /\ below => ret[1].memory_mb = R(0)
                /\ ~below => RAdd(ret[1].memory_mb, initial) = final

\* Without psutil the clock read 9 before the probe and 12 after it: the
\* readings are 34 and 27.
C19_Witness ==
    /\ pc = "returned"
    /\ ret[1].success
    /\ psutil = "missing"
    /\ initial_memory = R(34)
    /\ lastReading = R(27)
    /\ ret[1].memory_mb = R(0)

(***************************************************************************)
(* Failures and the reports.                                               *)
(***************************************************************************)
\* C20: whenever at least one probe failed, every probe included,
\* run_benchmark_suite saves the results, generates the reports and
\* returns a Suite whose summary counts the failures; it does not raise.
C20_FailuresReportedWithoutRaise ==
    (pc \in { "done", "exited" } /\ NumFailed >= 1) =>
        /\ outcome = "returned"
        /\ Len(csv) = Len(results)
        /\ summary[1].failed = NumFailed
        /\ summary[1].total_tests = Len(results)

(***************************************************************************)
(* The CSV export.                                                         *)
(***************************************************************************)
\* C21: the CSV holds one row per Sample, in the order of the result list;
\* the category column of a successful Sample is its worst-of-three tier
\* and that of a failed Sample is "failed", never one of the four tiers.
C21_CsvCategoryColumn ==
    pc \in { "reports", "done", "exited" } =>
        /\ Len(csv) = Len(results)
        /\ \A i \in 1..Len(csv) :
            /\ csv[i].name = results[i].name
            /\ csv[i].success = results[i].success
            /\ results[i].success =>
                   /\ csv[i].category \in { "excellent", "good", "acceptable", "poor" }
                   /\ TierIndex(csv[i].category) = OverallTier(results[i])
            /\ ~results[i].success => csv[i].category = "failed"

\* The third probe failed, the fourth did not.
C21_Witness ==
    /\ pc = "reports"
    /\ Len(csv) = 23
    /\ ~results[3].success
    /\ csv[3].category = "failed"
    /\ results[4].success
    /\ csv[4].category = "excellent"

(***************************************************************************)
(* The idiom converter.                                                    *)
(***************************************************************************)
\* The value the run that has just ended returned.
LastReturn == creturns[Len(creturns)]

\* C22: a run of convert_contents_json_to_iphone that does not raise leaves
\* no 'images' entry with idiom 'universal', changes nothing else (entries
\* with another idiom, filename, scale, size, info, the number and order
\* of the entries), rewrites the file and returns True iff some entry was
\* 'universal'; a run that follows another run returns False and writes
\* nothing.
C22_ConvertOnlyUniversal ==
    [][(pc = "convert" /\ file.kind = "object"
            /\ (file.images # None =>
                   \A i \in 1..Len(file.images[1]) : file.images[1][i].object))
        => LET was == IF file.images = None THEN << >> ELSE file.images[1]
               now == IF file'.images = None THEN << >> ELSE file'.images[1]
               had == \E i \in 1..Len(was) : was[i].idiom = << "universal" >>
           IN  /\ \A i \in 1..Len(now) : now[i].idiom # << "universal" >>
               /\ Len(now) = Len(was)
               /\ (file'.images = None) <=> (file.images = None)
               /\ \A i \in 1..Len(was) :
                   /\ was[i].idiom # << "universal" >> => now[i] = was[i]
                   /\ was[i].idiom = << "universal" >> =>
                          now[i].idiom = << "iphone" >>
                   /\ now[i].filename = was[i].filename
                   /\ now[i].scale = was[i].scale
                   /\ now[i].size = was[i].size
               /\ file'.info = file.info
               /\ creturns'[Len(creturns')] = had
               /\ writes' = IF had THEN writes + 1 ELSE writes
               /\ ~had => file' = file
               /\ creturns # << >> =>
                      (~creturns'[Len(creturns')] /\ writes' = writes /\ file' = file)
      ]_vars

\* A list with a universal, an ipad and an idiom-less entry was converted
\* by the first run and left alone by the second.
C22_Witness ==
    /\ pc = "convert"
    /\ creturns = << TRUE, FALSE >>
    /\ writes = 1
    /\ file.format = "indent2"
    /\ Len(file.images[1]) = 3
    /\ file.images[1][1].idiom = << "iphone" >>
    /\ file.images[1][2].idiom = << "ipad" >>
    /\ file.images[1][3].idiom = << >>

\* C23: validate-pet-assets.py exits with status 1 only when
\* App/Assets.xcassets does not exist; whenever the directory exists
\* validate_pet_assets returns True and the status is 0, whatever the state
\* of the sixteen imagesets.
C23_ExitOneOnlyWithoutDirectory ==
    pc = "validate_exited" =>
        /\ assets_dir => (vresult = "True" /\ vexit = Some(0))
        /\ ~assets_dir => (vresult = "False" /\ vexit = Some(1))

\* The names recorded by validate_pet_assets, in order.
RecordedNames == missing_assets \o incomplete_assets

\* C28: every required asset name is recorded at most once across
\* missing_assets and incomplete_assets, so the number of assets reported
\* as needing attention is the number of distinct assets with a problem and
\* never exceeds sixteen.
C28_RecordedAtMostOnce ==
    /\ \A i, j \in 1..Len(RecordedNames) : RecordedNames[i] = RecordedNames[j] => i = j
    /\ Len(RecordedNames) = Cardinality(Range(RecordedNames))
    /\ Len(RecordedNames) <= Len(REQUIRED_PET_ASSETS)

\* C24: the static checker ends with a pass rate of 100% ("ALL TESTS
\* PASSED") only if every path it inspects exists and every check on the
\* content of each found what it looks for; an absent path always records
\* a failed result.
C24_AllPassedOnlyIfAllPresent ==
    (pc = "tested" /\ verdict = "ALL TESTS PASSED") =>
        \A p \in TestPaths : tree[p].exists /\ tree[p].found = ChecksOf(p)

\* C25: every summary _generate_summary returns has total_tests =
\* successful + failed = the number of Samples, a success_rate between 0
\* and 100, and a success_rate of 100 exactly when there is at least one
\* Sample and none failed.
C25_SummaryCounts ==
    pc = "save" =>
        /\ summary[1].total_tests = summary[1].successful + summary[1].failed
        /\ summary[1].total_tests = Len(results)
        /\ RLeq(R(0), summary[1].success_rate)
        /\ RLeq(summary[1].success_rate, R(100))
        /\ (summary[1].success_rate = R(100))
               <=> (Len(results) > 0 /\ summary[1].failed = 0)

C25_Witness ==
    /\ pc = "save"
    /\ Len(results) = 3
    /\ summary[1].successful = 2
    /\ summary[1].failed = 1
    /\ RLess(R(0), summary[1].success_rate)
    /\ RLess(summary[1].success_rate, R(100))

\* The successful Samples whose three metrics are each at least those of r.
AtLeast(r) ==
    { BenchmarkResult("probe", d, m, c, TRUE, None, None) :
        d \in { x \in ClassifyDurations : RLeq(r.duration_ms, x) },
        m \in { x \in ClassifyMemory : RLeq(r.memory_mb, x) },
        c \in { x \in ClassifyCpu : RLeq(r.cpu_percent, x) } }

\* C26: classification is monotone: a successful Sample whose duration_ms,
\* memory_mb and cpu_percent are each greater than or equal to those of
\* another has the same overall tier or a worse one; and the overall tier
\* is excellent iff each of the three metrics is excellent.
C26_ClassificationMonotone ==
    pc = "categorize_returned" =>
        /\ \A other \in AtLeast(sample) :
              TierIndex(CategorizePerformance(other)) >= TierIndex(cret[1])
        /\ (cret[1] = "excellent")
              <=> (/\ clocals[1].duration_category = "excellent"
                   /\ clocals[1].memory_category = "excellent"
                   /\ clocals[1].cpu_category = "excellent")

C26_Witness ==
    /\ pc = "categorize_returned"
    /\ sample.duration_ms = R(500)
    /\ sample.memory_mb = R(5)
    /\ sample.cpu_percent = R(10)
    /\ cret = Some("good")
    /\ \E other \in AtLeast(sample) :
          other # sample /\ CategorizePerformance(other) = "good"
    /\ \E other \in AtLeast(sample) : CategorizePerformance(other) = "poor"

\* C27: a Sample the runner produced has cpu_percent above 50 only if its
\* duration_ms is above 500, hence above 100, so the recommendations of a
\* suite never hold the CPU message without the slow-operations message.
C27_CpuRuleImpliesSlowRule ==
    /\ \A i \in 1..Len(results) :
          (results[i].success /\ RLess(R(50), results[i].cpu_percent))
              => RLess(R(500), results[i].duration_ms)
    /\ (summary # None /\ "recommendations" \in DOMAIN summary[1]) =>
          LET rules == Range(RulesOf(summary[1].recommendations))
          IN  "cpu" \in rules => "slow" \in rules

C27_Witness ==
    /\ pc = "save"
    /\ \E i \in 1..Len(results) :
          results[i].success /\ RLess(R(50), results[i].cpu_percent)
    /\ "cpu" \in Range(RulesOf(summary[1].recommendations))
    /\ "slow" \in Range(RulesOf(summary[1].recommendations))

\* The point size "PP" and the scale "Sx" in a file name "icon-PP@Sx.png".
PointsIn(filename) == SubSeq(filename, 6, 7)
ScaleIn(filename) == SubSeq(filename, 9, 10)

\* C29: the Contents.json of the app icon set has one image per row of
\* APPICON_SIZES, in the same order; the 1024 icon has idiom ios-marketing,
\* scale 1x and size 1024x1024, every other one idiom iphone and the scale
\* and the point size written in its file name.
C29_AppiconEntries ==
    (pc = "icon_returned" /\ iret = Some(Len(APPICON_SIZES))) =>
        LET images == appicon.contents.images[1]
        IN  /\ Len(images) = Len(APPICON_SIZES)
            /\ \A i \in 1..Len(images) :
                LET filename == APPICON_SIZES[i][1]
                IN  /\ images[i].filename = Some(filename)
                    /\ IF filename = "icon-1024.png"
                       THEN /\ images[i].idiom = Some("ios-marketing")
                            /\ images[i].scale = Some("1x")
                            /\ images[i].size = Some("1024x1024")
                       ELSE /\ images[i].idiom = Some("iphone")
                            /\ images[i].scale = Some(ScaleIn(filename))
                            /\ images[i].size
                                 = Some(PointsIn(filename) \o "x" \o PointsIn(filename))

\* C30: the builder and the validator agree: the asset names of STAGES
\* are the REQUIRED_PET_ASSETS, and once create_asset_catalog has run for
\* the App target, with or without the imaging library, each required
\* imageset has its directory, a Contents.json listing 1x, 2x and 3x and
\* every listed file, so that validate_pet_assets finds all sixteen
\* complete; the same after the idiom converter has run over the catalog.
C30_BuilderAndValidatorAgree ==
    /\ { STAGES[i].asset : i \in DOMAIN STAGES } = Range(REQUIRED_PET_ASSETS)
    /\ pc \in { "built", "validate_loop", "validate_summary", "validate_returned",
                "validate_exited" } =>
          \A n \in Range(REQUIRED_PET_ASSETS) :
              LET im == ImagesetAt(catalog, n)
              IN  /\ im.dir
                  /\ im.contents.kind = "object"
                  /\ { im.contents.images[1][i].scale[1] :
                          i \in DOMAIN im.contents.images[1] } = Range(required_scales)
                  /\ \A i \in DOMAIN im.contents.images[1] :
                        im.contents.images[1][i].filename[1] \in im.files
    /\ pc \in { "validate_summary", "validate_returned", "validate_exited" } =>
          /\ all_valid
          /\ missing_assets = << >>
          /\ incomplete_assets = << >>
          /\ vresult # "raised"
    /\ pc = "validate_exited" => vexit = Some(0)

\* Built without the imaging library over no catalog, converted, validated.
C30_Witness ==
    /\ pc = "validate_exited"
    /\ ~pil
    /\ Cardinality(text_files) = 3 * Len(REQUIRED_PET_ASSETS)
    /\ total_converted = Some(Len(REQUIRED_PET_ASSETS))
    /\ \A n \in Range(REQUIRED_PET_ASSETS) :
          catalog[n].contents.images[1][1].idiom = Some("iphone")
    /\ all_valid
    /\ vexit = Some(0)

====
